---- MODULE Spec2Model ----
(***************************************************************************)
(* A model of pypeliner's job/resource lifecycle engine:                   *)
(*   jobs.py       JobInstance (out_of_date, retry), JobCallable           *)
(*   resources.py  UserResource, TempFileResource, TempObjManager          *)
(*   contrib/azure/batchqueue.py  AzureJobQueue                            *)
(*   contrib/azure/blobstorage.py AzureBlob, AzureBlobStorage              *)
(* The code is Python 2 (iteritems, ifilter): None orders below every      *)
(* number, int and NoneType have no __eq__ attribute.                      *)
(*                                                                         *)
(* Each component has its own specification over the shared variables:     *)
(*   SpecJob    staleness decision and one JobCallable run                 *)
(*   SpecRetry  JobInstance.retry                                          *)
(*   SpecRes    UserResource / TempFileResource lifecycle                  *)
(*   SpecObj    TempObjManager                                             *)
(*   SpecCall   one process creating and calling JobCallables              *)
(*   SpecCreate create_callable over the timeout strings (JobTimeOut)      *)
(*   SpecDef    CallSet, create_job_instances, JobInstance.finalize        *)
(*   SpecIO     JobInstance.init_inputs_outputs                            *)
(*   SpecQueue  AzureJobQueue (contrib/azure/batchqueue.py)                *)
(*   SpecShelf  JobInstance.already_run / complete over db.job_shelf       *)
(*   SpecFrame  the instances' copies of JobDefinition.ctx under retry     *)
(*   SpecTouch  Resource.touch and JobInstance.touch_outputs               *)
(*   SpecThread JobCallable.__call__ on two worker threads                 *)
(*   SpecQueueFair  SpecQueue with wait's polling scheduled fairly         *)
(*   SpecResend a job name sent again into the same temps_dir              *)
(*   SpecBlob   AzureBlob and its createtime cache                         *)
(*   SpecExit   AzureJobQueue.__exit__ and wait_for_job_deletion           *)
(***************************************************************************)
EXTENDS Integers, Sequences, FiniteSets, TLC

VARIABLES
    clock,                  \* the filesystem's current time
    fs,                     \* path -> mtime of the file, None when absent
    content,                \* path -> pickled content of an object slot
    inputs,                 \* JobInstance.inputs (resource filenames)
    outputs,                \* JobInstance.outputs
    is_required_downstream, \* JobInstance.is_required_downstream
    pc,                     \* position of the JobCallable: idle / func
    finished,               \* JobCallable.finished
    input_changed,          \* history: an input was written since __call__ began
    started_missing,        \* history: an output was missing when __call__ began
    wrote,                  \* history: outputs the function staged in this call
    job_def_ctx,            \* JobDefinition.ctx, shared by the instances
    ctx,                    \* JobInstance.ctx, the instance's own copy
    retry_idx,              \* JobInstance.retry_idx
    retry_ret,              \* what the last retry() call returned
    last_op,                \* the last resource / object operation performed
    exc,                    \* the exception that operation raised, or "none"
    last_obj,               \* the object given to the last TempObjManager.finalize
    got,                    \* what the last TempObjManager.get_obj returned
    ctx_timeout,            \* the "timeout" option create_callable read from the ctx
    callable,               \* the JobCallable create_callable returned
    call_pc,                \* position inside JobCallable.__call__
    argi,                   \* index of the next argument in the current loop
    sys_streams,            \* sys.stdout / sys.stderr of the process
    old_streams,            \* old_stdout / old_stderr saved by __call__
    alarm,                  \* a SIGALRM is pending in the process
    raised,                 \* the exception being handled in __call__
    trace,                  \* history: what this __call__ has done, in order
    outcome,                \* history: how __call__ ended: returned / raised
    callset_in,             \* the arguments given to CallSet(...)
    callset,                \* the CallSet constructed, when one was
    job_def,                \* class of the job definition
    nodes,                  \* what db.nodemgr.retrieve_nodes(axes) returned
    instances,              \* the instances create_job_instances yielded
    fin_trace,              \* history: what the last finalize() did, in order
    io_arglist,             \* the arglist init_inputs_outputs reads
    node_inputs,            \* what db.nodemgr.get_node_inputs(node) returned
    queue,                  \* the AzureJobQueue object's fields
    tasks,                  \* the batch service: task id -> state and transition time
    num_tasks,              \* how many task ids uuid1() has handed out
    wait_pc,                \* position inside AzureJobQueue.wait
    wait_immediate,         \* the immediate argument of the wait in progress
    reported,               \* the name wait returned that is not yet received
    recv,                   \* what the last receive found and did
    reports,                \* history: task id -> times wait reported its job's name
    received_tasks,         \* history: the task ids that were received
    job_shelf,              \* db.job_shelf, persisted by the database
    live,                   \* the JobInstances of the running process
    notified,               \* history: the workflow.notify_completed(id) calls, in order
    heap,                   \* the dict objects holding ctx options, by identity
    def_ctx,                \* JobDefinition.ctx: the identity of its dict
    insts,                  \* the JobInstances of that definition, in creation order
    th_pc,                  \* worker thread -> its position in JobCallable.__call__
    th_old,                 \* worker thread -> the old_stdout / old_stderr it saved
    th_out,                 \* history: <<thread, stream>>, where each job's output went
    local_files,            \* the files in the jobs' temps_dirs, by <<temps_dir, filename>>
    blobs,                  \* the blobs of the container, by <<prefix, filename>>
    recv_src,               \* history: the tasks that wrote what the last receive read
    blob_store,             \* the storage service's blob of one blob name
    createtime_cache,       \* the createtime cache of that blob name
    file_mtime,             \* mtime of AzureBlob.filename, None when absent
    exit_pc,                \* position inside AzureJobQueue.__exit__
    exit_todo,              \* the pools the current for loop has yet to visit
    no_delete,              \* the queue's no_delete_pool / no_delete_job
    batch_pools,            \* the batch service: pool id -> state
    batch_jobs,             \* the batch service: job id -> state
    exit_asked              \* history: the deletion requests __exit__ made

jobVars == <<inputs, outputs, is_required_downstream, pc, finished,
             input_changed, started_missing, wrote>>
fsVars == <<clock, fs, content>>
retryVars == <<job_def_ctx, ctx, retry_idx, retry_ret>>
opVars == <<last_op, exc>>
objVars == <<last_obj, got>>
callVars == <<ctx_timeout, callable, call_pc, argi, sys_streams, old_streams,
              alarm, raised, trace, outcome>>
defVars == <<callset_in, callset, job_def, nodes, instances, fin_trace>>
ioVars == <<io_arglist, node_inputs>>
azVars == <<queue, tasks, num_tasks, wait_pc, wait_immediate, reported, recv,
            reports, received_tasks>>
shelfVars == <<job_shelf, live, notified>>
frameVars == <<heap, def_ctx, insts>>
threadVars == <<th_pc, th_old, th_out>>
resendVars == <<local_files, blobs, recv_src>>
blobVars == <<blob_store, createtime_cache, file_mtime>>
exitVars == <<exit_pc, exit_todo, no_delete, batch_pools, batch_jobs,
              exit_asked>>
finalVars == <<threadVars, resendVars, blobVars, exitVars>>
laterVars == <<ioVars, azVars, shelfVars, frameVars, finalVars>>
vars == <<fsVars, jobVars, retryVars, opVars, objVars, callVars, defVars,
          laterVars>>

(***************************************************************************)
(* Bounds                                                                  *)
(***************************************************************************)
MaxTime == 3
MaxRetry == 2

(***************************************************************************)
(* Time and files                                                          *)
(***************************************************************************)
\* Python's None as a createtime.  Python 2 orders None below every number,
\* so the integer order on this encoding is the order max()/min() use.
None == -1

AllInputs == <<"in1", "in2">>
AllOutputs == <<"out1", "out2">>

\* The staged path a job writes before the output is moved into place.
WritePath(r) ==
    CASE r = "out1" -> "out1.tmp"
      [] r = "out2" -> "out2.tmp"
      [] r = "user" -> "user.tmp"
      [] r = "temp" -> "temp.tmp"

JobPaths == {"in1", "in2", "out1", "out2", "out1.tmp", "out2.tmp"}

\* One user resource and one temporary file resource, with their staged
\* write paths and the temporary file's createtime placeholder.
ResPaths == {"user", "user.tmp", "temp", "temp.tmp", "temp._placeholder"}

\* The two slots of one temporary object.
ObjPaths == {"obj._i", "obj._o"}

Paths == JobPaths \cup ResPaths \cup ObjPaths

NoContent == <<>>

Unset == <<"unset">>

Range(s) == {s[i] : i \in DOMAIN s}

\* The parts of the state a specification does not use stay as constructed.
FsEmpty ==
    /\ clock = 0
    /\ fs = [p \in Paths |-> None]
    /\ content = [p \in Paths |-> NoContent]

JobIdle ==
    /\ inputs = <<>> /\ outputs = <<>> /\ is_required_downstream = FALSE
    /\ pc = "idle" /\ finished = FALSE /\ input_changed = FALSE
    /\ started_missing = FALSE /\ wrote = {}

RetryIdle ==
    /\ job_def_ctx = <<>> /\ ctx = <<>> /\ retry_idx = 0 /\ retry_ret = "none"

NoOp == <<"none", "">>

OpIdle == last_op = NoOp /\ exc = "none"

ObjIdle == last_obj = Unset /\ got = Unset

\* Python's None as a value.
PyNone == <<"NoneType">>

\* No JobCallable has been constructed.
NoCallable ==
    [kind |-> "none", nargs |-> 0, has_ret |-> FALSE,
     job_time_out |-> [_timeout_string |-> PyNone, _timeout |-> None],
     finished |-> FALSE, ret_bound |-> FALSE]

NoException == <<"none", "">>

CallIdle ==
    /\ ctx_timeout = PyNone /\ callable = NoCallable /\ call_pc = "idle"
    /\ argi = 1 /\ sys_streams = "original" /\ old_streams = "original"
    /\ alarm = FALSE /\ raised = NoException /\ trace = <<>>
    /\ outcome = "none"

\* No CallSet has been constructed.
NoCallSet == [ret |-> "none", args |-> "none", kwargs |-> "none"]

DefIdle ==
    /\ callset_in = Unset /\ callset = NoCallSet /\ job_def = "none"
    /\ nodes = <<>> /\ instances = <<>> /\ fin_trace = <<>>

IoIdle == io_arglist = <<>> /\ node_inputs = <<>>

\* The names jobs are sent under and the task ids uuid1() hands out, in
\* the order it does.
JobNames == {"job1", "job2"}
TaskIds == <<"task1", "task2", "task3">>

\* The temps_dir the caller gives send for a job name, and the blob name
\* prefix 'output_' + task_id.
temps_dir_of(name) == <<"temps", name>>

blobname_prefix(task_id) == <<"output_", task_id>>

\* The fields of a new AzureJobQueue.  The dicts are sets of <<key, value>>
\* pairs.
NewQueue ==
    [job_names |-> {}, job_task_ids |-> {}, job_temps_dir |-> {},
     job_blobname_prefix |-> {}, running_task_ids |-> {},
     completed_task_ids |-> {}, most_recent_transition_time |-> None]

\* A task id the batch service has no task for.  A task has a state, the
\* time of its last state transition and (history) the name it was sent for.
NoTask == [state |-> "none", time |-> None, name |-> "none"]

\* No receive has been made since the last send or wait.
NoRecv == [name |-> "none", file |-> "none", result |-> "none", logs |-> {},
           text |-> {}]

AzIdle ==
    /\ queue = NewQueue
    /\ tasks = [t \in Range(TaskIds) |-> NoTask]
    /\ num_tasks = 0 /\ wait_pc = "idle" /\ wait_immediate = FALSE
    /\ reported = "none" /\ recv = NoRecv
    /\ reports = [t \in Range(TaskIds) |-> 0] /\ received_tasks = {}

ShelfIdle == job_shelf = {} /\ live = {} /\ notified = <<>>

FrameIdle == heap = <<>> /\ def_ctx = 0 /\ insts = <<>>

\* The worker threads of a process that runs JobCallables concurrently.
Threads == {1, 2}

ThreadIdle ==
    /\ th_pc = [t \in Threads |-> "idle"]
    /\ th_old = [t \in Threads |-> "original"]
    /\ th_out = {}

\* The files a job leaves in its temps_dir and under its blob prefix.
JobFileNames ==
    {"job.pickle", "job.sh", "job_result.pickle", "stdout.txt", "stderr.txt",
     "fileuploaderr.txt", "fileuploadout.txt"}

\* A path no file is at.  A file has (history) the task it was written
\* for, and its data.
NoFile == [task |-> "none", data |-> "absent"]

ResendIdle ==
    /\ local_files = [f \in {temps_dir_of(name) : name \in JobNames}
                            \X JobFileNames |-> NoFile]
    /\ blobs = {}
    /\ recv_src = {}

\* The storage service has no blob of the name.  A blob has its metadata
\* 'create_time' (None when it has none) and its last_modified time.
NoBlob == [exists |-> FALSE, create_time |-> None, last_modified |-> None]

BlobIdle ==
    blob_store = NoBlob /\ createtime_cache = None /\ file_mtime = None

\* self.config["pools"].keys(), in the order the dict iterates, and
\* pool_job_map[pool_id]
PoolIds == <<"pool1", "pool2">>

pool_job_map(pool_id) == <<"pypeliner", pool_id>>

JobIds == {pool_job_map(pool_id) : pool_id \in Range(PoolIds)}

ExitIdle ==
    /\ exit_pc = "idle" /\ exit_todo = <<>>
    /\ no_delete = [pool |-> FALSE, job |-> FALSE]
    /\ batch_pools = [pool_id \in Range(PoolIds) |-> "none"]
    /\ batch_jobs = [job_id \in JobIds |-> "none"]
    /\ exit_asked = {}

FinalIdle == ThreadIdle /\ ResendIdle /\ BlobIdle /\ ExitIdle

LaterIdle == IoIdle /\ AzIdle /\ ShelfIdle /\ FrameIdle /\ FinalIdle


Max(s) == CHOOSE x \in Range(s) : \A y \in Range(s) : x >= y

Min(s) == CHOOSE x \in Range(s) : \A y \in Range(s) : x <= y

\* os.path.exists
exists(f, path) == f[path] # None

\* os.path.getmtime
getmtime(f, path) == f[path]

\* os.rename(src, dst): OSError when src is absent, else dst replaces src
\* and keeps src's mtime.
rename_ok(f, src) == exists(f, src)

rename(f, src, dst) == [f EXCEPT ![dst] = f[src], ![src] = None]

(***************************************************************************)
(* UserResource                                                            *)
(***************************************************************************)
UserResource_get_exists(f, filename) == exists(f, filename)

UserResource_get_createtime(f, filename) ==
    IF exists(f, filename) THEN getmtime(f, filename) ELSE None

\* Variant of finalize that tests the staged path but does not move it.
UserResource_finalize_norename(f, write_filename, filename) ==
    IF rename_ok(f, write_filename)
    THEN [fs |-> f, exc |-> "none"]
    ELSE [fs |-> f, exc |-> "OutputMissingException"]

\* finalize: [fs |-> filesystem afterwards, exc |-> exception raised]
UserResource_finalize(f, write_filename, filename) ==
    IF rename_ok(f, write_filename)
    THEN [fs |-> rename(f, write_filename, filename), exc |-> "none"]
    ELSE [fs |-> f, exc |-> "OutputMissingException"]

(***************************************************************************)
(* JobInstance.out_of_date                                                 *)
(***************************************************************************)
createtimes(f, rs) == [i \in DOMAIN rs |-> UserResource_get_createtime(f, rs[i])]

\* Variant of out_of_date that reports a job without inputs up to date.
out_of_date_noinput_fresh(f, ins, outs) ==
    LET input_dates == createtimes(f, ins)
        output_dates == createtimes(f, outs)
    IN  IF Len(input_dates) = 0 THEN FALSE
        ELSE IF Len(output_dates) = 0 THEN TRUE
        ELSE IF None \in Range(output_dates) THEN TRUE
        ELSE Max(input_dates) > Min(output_dates)

\* Variant of out_of_date that compares with >= instead of >.
out_of_date_geq(f, ins, outs) ==
    LET input_dates == createtimes(f, ins)
        output_dates == createtimes(f, outs)
    IN  IF Len(input_dates) = 0 \/ Len(output_dates) = 0 THEN TRUE
        ELSE IF None \in Range(output_dates) THEN TRUE
        ELSE Max(input_dates) >= Min(output_dates)

out_of_date(f, ins, outs) ==
    LET input_dates == createtimes(f, ins)
        output_dates == createtimes(f, outs)
    IN  IF Len(input_dates) = 0 \/ Len(output_dates) = 0 THEN TRUE
        ELSE IF None \in Range(output_dates) THEN TRUE
        ELSE Max(input_dates) > Min(output_dates)

\* _pretty_date: 'none', or the timestamp as a formatted date
_pretty_date(ts) == IF ts = None THEN <<"none">> ELSE <<"date", ts>>

\* explain_out_of_date: the lines of the explanation, the headline first,
\* then one line per input and one per output; a status is the sequence of
\* its words.
explain_out_of_date(f, ins, outs, required) ==
    LET input_dates == createtimes(f, ins)
        output_dates == createtimes(f, outs)
        newest_input_date ==
            IF Len(input_dates) = 0 THEN None ELSE Max(input_dates)
        oldest_output_date ==
            IF Len(output_dates) = 0 THEN None ELSE Min(output_dates)
        headline ==
            IF Len(input_dates) = 0 /\ Len(output_dates) = 0
            THEN "no inputs/outputs: always run"
            ELSE IF Len(input_dates) = 0 THEN "no inputs: always run"
            ELSE IF Len(output_dates) = 0 THEN "no outputs: always run"
            ELSE IF None \in Range(output_dates) THEN "missing outputs"
            ELSE IF newest_input_date > oldest_output_date
            THEN "out of date outputs"
            ELSE IF required THEN "outputs required by downstream job"
            ELSE "up to date"
        input_line(i) ==
            <<"input", ins[i], _pretty_date(input_dates[i]),
              IF oldest_output_date # None /\ input_dates[i] > oldest_output_date
              THEN <<"new">> ELSE <<>> >>
        output_status(i) ==
            (IF output_dates[i] = None THEN <<>>
             ELSE IF newest_input_date # None
                     /\ output_dates[i] < newest_input_date
             THEN <<_pretty_date(output_dates[i]), "old">>
             ELSE <<_pretty_date(output_dates[i])>>)
            \o (IF ~UserResource_get_exists(f, outs[i])
                THEN <<"missing">> ELSE <<>>)
        output_line(i) == <<"output", outs[i], output_status(i)>>
    IN  <<headline>> \o [i \in DOMAIN ins |-> input_line(i)]
                    \o [i \in DOMAIN outs |-> output_line(i)]

(***************************************************************************)
(* JobCallable.__call__ for a job whose arguments are user files           *)
(***************************************************************************)
\* arg.push() of an output file argument: the resource finalizes the
\* staged write path.
Arg_push(f, r) == UserResource_finalize(f, WritePath(r), r)

\* JobCallable.push: arg.push() for every argument, in argument order; the
\* first exception aborts the rest.
RECURSIVE push(_, _, _)
push(f, outs, i) ==
    IF i > Len(outs) THEN [fs |-> f, exc |-> "none"]
    ELSE LET r == Arg_push(f, outs[i])
         IN  IF r.exc # "none" THEN r ELSE push(r.fs, outs, i + 1)

JobInit ==
    /\ FsEmpty /\ CallIdle /\ DefIdle /\ LaterIdle /\ RetryIdle /\ OpIdle /\ ObjIdle
    /\ inputs \in {SubSeq(AllInputs, 1, n) : n \in 0..Len(AllInputs)}
    /\ outputs \in {SubSeq(AllOutputs, 1, n) : n \in 0..Len(AllOutputs)}
    /\ is_required_downstream = FALSE
    /\ pc = "idle"
    /\ finished = FALSE
    /\ input_changed = FALSE
    /\ started_missing = FALSE
    /\ wrote = {}

\* Time passes.
Tick ==
    /\ clock < MaxTime
    /\ clock' = clock + 1
    /\ UNCHANGED <<laterVars, callVars, defVars, fs, content, jobVars, retryVars, opVars, objVars>>

\* The user writes (creates or modifies) an input file of the job.
WriteInput ==
    /\ \E i \in DOMAIN inputs :
         fs' = [fs EXCEPT ![inputs[i]] = clock]
    /\ input_changed' = TRUE
    /\ UNCHANGED <<laterVars, callVars, defVars, retryVars, opVars, objVars, clock, content, inputs, outputs, is_required_downstream,
                   pc, finished, started_missing, wrote>>

\* The workflow marks the job as required by a downstream job.
SetRequiredDownstream ==
    /\ ~is_required_downstream
    /\ is_required_downstream' = TRUE
    /\ UNCHANGED <<laterVars, callVars, defVars, retryVars, opVars, objVars, fsVars, inputs, outputs, pc, finished, input_changed,
                   started_missing, wrote>>

\* __call__ up to the invocation of func: a new callable starts unfinished.
CallBegin ==
    /\ pc = "idle"
    /\ pc' = "func"
    /\ finished' = FALSE
    /\ input_changed' = FALSE
    /\ started_missing' = (\E i \in DOMAIN outputs : ~exists(fs, outputs[i]))
    /\ wrote' = {}
    /\ UNCHANGED <<laterVars, callVars, defVars, retryVars, opVars, objVars, fsVars, inputs, outputs, is_required_downstream>>

\* The running function writes the staged file of one of its outputs.
FuncWrite ==
    /\ pc = "func"
    /\ \E i \in DOMAIN outputs :
         /\ fs' = [fs EXCEPT ![WritePath(outputs[i])] = clock]
         /\ wrote' = wrote \cup {outputs[i]}
    /\ UNCHANGED <<laterVars, callVars, defVars, retryVars, opVars, objVars, clock, content, inputs, outputs, is_required_downstream,
                   pc, finished, input_changed, started_missing>>

\* func returns; push finalizes the outputs; finished is set only when
\* nothing raised.
FuncReturn ==
    /\ pc = "func"
    /\ LET r == push(fs, outputs, 1)
       IN  /\ fs' = r.fs
           /\ finished' = (r.exc = "none")
    /\ pc' = "idle"
    /\ UNCHANGED <<laterVars, callVars, defVars, retryVars, opVars, objVars, clock, content, inputs, outputs, is_required_downstream,
                   input_changed, started_missing, wrote>>

\* func raises: the except clause swallows it, finished stays False.
FuncRaise ==
    /\ pc = "func"
    /\ pc' = "idle"
    /\ UNCHANGED <<laterVars, callVars, defVars, retryVars, opVars, objVars, fsVars, inputs, outputs, is_required_downstream,
                   finished, input_changed, started_missing, wrote>>

JobNext ==
    \/ Tick
    \/ WriteInput
    \/ SetRequiredDownstream
    \/ CallBegin
    \/ FuncWrite
    \/ FuncReturn
    \/ FuncRaise

SpecJob == JobInit /\ [][JobNext]_vars

(***************************************************************************)
(* JobInstance.retry                                                       *)
(***************************************************************************)
\* A ctx key is the pair <<option, suffix>> of the string option + suffix:
\* endswith(suffix) reads the second component, key[:-len(suffix)] is the
\* first with the empty suffix.
Opt(name) == <<name, "">>

CtxKeys == {Opt("mem"), <<"mem", "_retry_factor">>, <<"mem", "_retry_increment">>,
            Opt("disk"), <<"disk", "_retry_increment">>, Opt("num_retry")}

endswith(key, suffix) == key[2] = suffix

IsEscalation(key) ==
    endswith(key, "_retry_factor") \/ endswith(key, "_retry_increment")

\* The values a job definition gives each key.
CtxValues(key) ==
    IF key = Opt("num_retry") THEN 0..MaxRetry
    ELSE IF endswith(key, "_retry_factor") THEN {2}
    ELSE IF endswith(key, "_retry_increment") THEN {1}
    ELSE IF key = Opt("mem") THEN {1, 2}
    ELSE {1}

\* The contexts of the model: every escalation key names an option the
\* context holds.
Contexts ==
    UNION {{c \in [D -> 0..(MaxRetry + 2)] : \A k \in D : c[k] \in CtxValues(k)} :
           D \in {E \in SUBSET CtxKeys :
                    \A k \in E : IsEscalation(k) => Opt(k[1]) \in E}}

\* ctx.get(key, default)
get(c, key, default) == IF key \in DOMAIN c THEN c[key] ELSE default

\* The orders in which iteritems() may yield the escalation keys of c (the
\* other keys fall through both branches of the loop body).
Orders(c) ==
    LET E == {k \in DOMAIN c : IsEscalation(k)}
    IN  {o \in [1..Cardinality(E) -> E] : \A i, j \in DOMAIN o : o[i] = o[j] => i = j}

\* Variant of the loop body that adds the factor instead of multiplying.
loop_body_factor_adds(c, key) ==
    IF endswith(key, "_retry_factor")
    THEN [c EXCEPT ![Opt(key[1])] = @ + c[key]]
    ELSE IF endswith(key, "_retry_increment")
    THEN [c EXCEPT ![Opt(key[1])] = @ + c[key]]
    ELSE c

\* One pass of the loop body of retry().
loop_body(c, key) ==
    IF endswith(key, "_retry_factor")
    THEN [c EXCEPT ![Opt(key[1])] = @ * c[key]]
    ELSE IF endswith(key, "_retry_increment")
    THEN [c EXCEPT ![Opt(key[1])] = @ + c[key]]
    ELSE c

RECURSIVE loop(_, _, _)
loop(c, order, i) ==
    IF i > Len(order) THEN c ELSE loop(loop_body(c, order[i]), order, i + 1)

updated_of(c) == \E k \in DOMAIN c : IsEscalation(k)

\* Variant of retry whose guard is > instead of >=.
retry_gt(idx, c, order) ==
    IF idx > get(c, Opt("num_retry"), 0)
    THEN [retry_idx |-> idx, ctx |-> c, ret |-> "False"]
    ELSE [retry_idx |-> idx + 1,
          ctx |-> loop(c, order, 1),
          ret |-> IF updated_of(c) THEN "True" ELSE "False"]

\* Variant of retry that sets updated only for _retry_factor keys.
retry_increment_silent(idx, c, order) ==
    IF idx >= get(c, Opt("num_retry"), 0)
    THEN [retry_idx |-> idx, ctx |-> c, ret |-> "False"]
    ELSE [retry_idx |-> idx + 1,
          ctx |-> loop(c, order, 1),
          ret |-> IF \E k \in DOMAIN c : endswith(k, "_retry_factor")
                  THEN "True" ELSE "False"]

\* retry(): [retry_idx, ctx, ret] after the call.
retry(idx, c, order) ==
    IF idx >= get(c, Opt("num_retry"), 0)
    THEN [retry_idx |-> idx, ctx |-> c, ret |-> "False"]
    ELSE [retry_idx |-> idx + 1,
          ctx |-> loop(c, order, 1),
          ret |-> IF updated_of(c) THEN "True" ELSE "False"]

\* JobInstance.__init__: retry_idx = 0, ctx = job_def.ctx.copy()
RetryInit ==
    /\ job_def_ctx \in Contexts
    /\ ctx = job_def_ctx
    /\ retry_idx = 0
    /\ retry_ret = "none"
    /\ FsEmpty /\ CallIdle /\ DefIdle /\ LaterIdle /\ JobIdle /\ OpIdle /\ ObjIdle

\* The workflow calls retry() after a failed attempt.
Retry ==
    /\ \E order \in Orders(ctx) :
         LET r == retry(retry_idx, ctx, order)
         IN  /\ retry_idx' = r.retry_idx
             /\ ctx' = r.ctx
             /\ retry_ret' = r.ret
    /\ UNCHANGED <<laterVars, callVars, defVars, job_def_ctx, fsVars, jobVars, opVars, objVars>>

RetryNext == Retry

SpecRetry == RetryInit /\ [][RetryNext]_vars

(***************************************************************************)
(* TempFileResource, and the lifecycle of one user and one temp resource   *)
(***************************************************************************)
\* pypeliner.helpers.touch: create the file if it is absent, mtime := now
touch(f, path, now) == [f EXCEPT ![path] = now]

\* shutil.copystat(src, dst): dst takes src's times
copystat(f, src, dst) == [f EXCEPT ![dst] = f[src]]

\* filename + '._placeholder'
TempFileResource__get_createtime_placeholder(filename) ==
    CASE filename = "temp" -> "temp._placeholder"

\* Variant of _save_createtime that touches the placeholder without copystat.
TempFileResource__save_createtime_nocopy(f, filename, now) ==
    touch(f, TempFileResource__get_createtime_placeholder(filename), now)

TempFileResource__save_createtime(f, filename, now) ==
    LET placeholder_filename == TempFileResource__get_createtime_placeholder(filename)
    IN  copystat(touch(f, placeholder_filename, now), filename, placeholder_filename)

TempFileResource_get_exists(f, filename) == exists(f, filename)

TempFileResource_get_createtime(f, filename) ==
    LET placeholder_filename == TempFileResource__get_createtime_placeholder(filename)
    IN  IF exists(f, filename) THEN getmtime(f, filename)
        ELSE IF exists(f, placeholder_filename) THEN getmtime(f, placeholder_filename)
        ELSE None

UserResource_touch(f, filename, now) == touch(f, filename, now)

TempFileResource_touch(f, filename, now) ==
    TempFileResource__save_createtime(touch(f, filename, now), filename, now)

\* Variant of finalize that touches the placeholder before the rename.
TempFileResource_finalize_touch_first(f, write_filename, filename, now) ==
    LET g == touch(f, TempFileResource__get_createtime_placeholder(filename), now)
    IN  IF rename_ok(g, write_filename)
        THEN [fs |-> TempFileResource__save_createtime(
                         rename(g, write_filename, filename), filename, now),
              exc |-> "none"]
        ELSE [fs |-> g, exc |-> "OutputMissingException"]

TempFileResource_finalize(f, write_filename, filename, now) ==
    IF rename_ok(f, write_filename)
    THEN [fs |-> TempFileResource__save_createtime(
                     rename(f, write_filename, filename), filename, now),
          exc |-> "none"]
    ELSE [fs |-> f, exc |-> "OutputMissingException"]

Resources == {"user", "temp"}

\* Dispatch on the resource's class.
get_exists(f, r) ==
    IF r = "user" THEN UserResource_get_exists(f, r)
    ELSE TempFileResource_get_exists(f, r)

get_createtime(f, r) ==
    IF r = "user" THEN UserResource_get_createtime(f, r)
    ELSE TempFileResource_get_createtime(f, r)

finalize(f, r, now) ==
    IF r = "user" THEN UserResource_finalize(f, WritePath(r), r)
    ELSE TempFileResource_finalize(f, WritePath(r), r, now)

ResInit ==
    /\ FsEmpty /\ CallIdle /\ DefIdle /\ LaterIdle /\ JobIdle /\ RetryIdle /\ OpIdle /\ ObjIdle

\* A job's function writes the staged file of the resource.
Stage ==
    /\ \E r \in Resources :
         /\ fs' = [fs EXCEPT ![WritePath(r)] = clock]
         /\ last_op' = <<"stage", r>>
    /\ exc' = "none"
    /\ UNCHANGED <<laterVars, callVars, defVars, clock, content, jobVars, retryVars, objVars>>

\* resource.finalize(write_filename, db)
Finalize ==
    /\ \E r \in Resources :
         LET res == finalize(fs, r, clock)
         IN  /\ fs' = res.fs
             /\ exc' = res.exc
             /\ last_op' = <<"finalize", r>>
    /\ UNCHANGED <<laterVars, callVars, defVars, clock, content, jobVars, retryVars, objVars>>

\* resource.touch(db)
Touch ==
    /\ \E r \in Resources :
         /\ fs' = IF r = "user" THEN UserResource_touch(fs, r, clock)
                  ELSE TempFileResource_touch(fs, r, clock)
         /\ last_op' = <<"touch", r>>
    /\ exc' = "none"
    /\ UNCHANGED <<laterVars, callVars, defVars, clock, content, jobVars, retryVars, objVars>>

\* Cleanup removes the live temporary file.
Cleanup ==
    /\ exists(fs, "temp")
    /\ fs' = [fs EXCEPT !["temp"] = None]
    /\ last_op' = <<"cleanup", "temp">>
    /\ exc' = "none"
    /\ UNCHANGED <<laterVars, callVars, defVars, clock, content, jobVars, retryVars, objVars>>

ResNext ==
    \/ Tick
    \/ Stage
    \/ Finalize
    \/ Touch
    \/ Cleanup

SpecRes == ResInit /\ [][ResNext]_vars

(***************************************************************************)
(* Python values, pickle, obj_equal and TempObjManager                     *)
(***************************************************************************)
\* A value is None, an int, an instance of a class that defines no __eq__
\* (its __dict__ holds one attribute) or a one-element list.  Instances
\* and lists carry their identity.
PyInt(n) == <<"int", n>>
Inst(id, attr) == <<"instance", id, attr>>
List(id, item) == <<"list", id, item>>

class(v) == v[1]

Atoms == {PyNone, PyInt(1), PyInt(2)}

Nested == {Inst(2, a) : a \in Atoms} \cup {List(2, a) : a \in Atoms}

\* The objects a job may hand to finalize: the caller's objects have
\* identities 1 (outer) and 2 (inner).
Values ==
    Atoms \cup {Inst(1, a) : a \in Atoms \cup Nested}
          \cup {List(1, a) : a \in Atoms \cup Nested}

\* pickle.dump: the structure of the value, without identities
RECURSIVE dump(_)
dump(v) ==
    IF class(v) = "NoneType" THEN <<"N">>
    ELSE IF class(v) = "int" THEN <<"I", v[2]>>
    ELSE IF class(v) = "instance" THEN <<"O", dump(v[3])>>
    ELSE <<"L", dump(v[3])>>

\* pickle.load: a new object graph; its identities (negative, by depth)
\* are those of no object the caller holds
RECURSIVE load(_, _)
load(p, depth) ==
    IF p[1] = "N" THEN PyNone
    ELSE IF p[1] = "I" THEN PyInt(p[2])
    ELSE IF p[1] = "O" THEN Inst(0 - depth, load(p[2], depth + 1))
    ELSE List(0 - depth, load(p[2], depth + 1))

\* Python's a == b.  NoneType and int compare by value; an instance of a
\* class without __eq__ compares by identity; lists compare item-wise,
\* identical items being equal.
RECURSIVE py_eq(_, _)
py_eq(a, b) ==
    IF class(a) # class(b) THEN FALSE
    ELSE IF class(a) = "NoneType" THEN TRUE
    ELSE IF class(a) = "int" THEN a[2] = b[2]
    ELSE IF class(a) = "instance" THEN a[2] = b[2]
    ELSE a[2] = b[2] \/ py_eq(a[3], b[3])

\* hasattr(v, '__eq__'): of these classes Python 2 gives only list one
has___eq__(v) == class(v) = "list"

\* hasattr(v, '__dict__')
has___dict__(v) == class(v) = "instance"

\* obj_equal: obj1.__eq__(obj2) unless absent or NotImplemented (a list
\* against another class); then the classes; then the two __dict__, which
\* compare their attribute values with ==; then obj1 == obj2.
obj_equal(obj1, obj2) ==
    IF has___eq__(obj1) /\ class(obj2) = "list"
    THEN py_eq(obj1, obj2)
    ELSE IF class(obj1) # class(obj2) THEN FALSE
    ELSE IF has___dict__(obj1) /\ has___dict__(obj2)
    THEN py_eq(obj1[3], obj2[3])
    ELSE py_eq(obj1, obj2)

\* TempObjResource.get_filename: ('._i', '._o')[is_input]
TempObjResource_get_filename(is_input) == IF is_input THEN "obj._o" ELSE "obj._i"

TempObjResource_get_exists(f, is_input) ==
    exists(f, TempObjResource_get_filename(is_input))

TempObjResource_get_createtime(f, is_input) ==
    IF exists(f, TempObjResource_get_filename(is_input))
    THEN getmtime(f, TempObjResource_get_filename(is_input))
    ELSE None

\* TempObjManager.get_obj: the unpickled input slot, None when it is absent
TempObjManager_get_obj(f, c) ==
    IF exists(f, TempObjResource_get_filename(TRUE))
    THEN load(c[TempObjResource_get_filename(TRUE)], 1)
    ELSE PyNone

\* open(filename, 'wb'); pickle.dump(obj, f)
write_pickle(st, filename, obj, now) ==
    [fs |-> [st.fs EXCEPT ![filename] = now],
     content |-> [st.content EXCEPT ![filename] = dump(obj)]]

\* Variant of finalize that rewrites the input slot when the values are equal.
TempObjManager_finalize_inverted(f, c, obj, now) ==
    LET st == write_pickle([fs |-> f, content |-> c],
                           TempObjResource_get_filename(FALSE), obj, now)
    IN  IF obj_equal(obj, TempObjManager_get_obj(st.fs, st.content))
        THEN write_pickle(st, TempObjResource_get_filename(TRUE), obj, now)
        ELSE st

\* TempObjManager.finalize: [fs, content] afterwards
TempObjManager_finalize(f, c, obj, now) ==
    LET st == write_pickle([fs |-> f, content |-> c],
                           TempObjResource_get_filename(FALSE), obj, now)
    IN  IF ~obj_equal(obj, TempObjManager_get_obj(st.fs, st.content))
        THEN write_pickle(st, TempObjResource_get_filename(TRUE), obj, now)
        ELSE st

ObjInit ==
    /\ FsEmpty /\ CallIdle /\ DefIdle /\ LaterIdle /\ JobIdle /\ RetryIdle /\ OpIdle /\ ObjIdle

\* mgr.finalize(obj, db), for any object the job produced
ObjFinalize ==
    /\ \E obj \in Values :
         LET st == TempObjManager_finalize(fs, content, obj, clock)
         IN  /\ fs' = st.fs
             /\ content' = st.content
             /\ last_obj' = obj
    /\ last_op' = <<"obj_finalize", "">>
    /\ got' = Unset
    /\ UNCHANGED <<laterVars, callVars, defVars, clock, exc, jobVars, retryVars>>

\* mgr.get_obj(db)
ObjGet ==
    /\ got' = TempObjManager_get_obj(fs, content)
    /\ last_op' = <<"get_obj", "">>
    /\ UNCHANGED <<laterVars, callVars, defVars, fsVars, exc, last_obj, jobVars, retryVars>>

ObjNext ==
    \/ Tick
    \/ ObjFinalize
    \/ ObjGet

SpecObj == ObjInit /\ [][ObjNext]_vars

(***************************************************************************)
(* JobTimeOut and JobCallable (jobs.py)                                    *)
(***************************************************************************)
\* A Python str, as the sequence of its characters.
Str(chars) == <<"str", chars>>

\* The value of each decimal digit the timeout strings are written with.
DigitValue == ("0" :> 0) @@ ("1" :> 1) @@ ("2" :> 2) @@ ("3" :> 3)

\* The characters of the timeout strings: digits, the four units and one
\* letter that is not a unit.
Chars == DOMAIN DigitValue \cup {"s", "m", "h", "d", "x"}

MaxLen == 3

\* The values a ctx can hold under "timeout": None or a string.
TimeoutStrings ==
    {PyNone} \cup {Str(c) : c \in UNION {[1..n -> Chars] : n \in 0..MaxLen}}

\* timeout.endswith(ch)
str_endswith(timeout, ch) ==
    Len(timeout[2]) > 0 /\ timeout[2][Len(timeout[2])] = ch

RECURSIVE int_digits(_, _, _)
int_digits(chars, i, acc) ==
    IF i > Len(chars) THEN acc
    ELSE int_digits(chars, i + 1, acc * 10 + DigitValue[chars[i]])

\* int(chars): a ValueError unless chars is one or more digits.
int(chars) ==
    IF Len(chars) = 0 \/ \E i \in DOMAIN chars : chars[i] \notin DOMAIN DigitValue
    THEN [exc |-> "ValueError", value |-> 0]
    ELSE [exc |-> "none", value |-> int_digits(chars, 1, 0)]

\* Variant of the multiplier table that reads hours as minutes.
multiplier_hours_as_minutes(timeout) ==
    CASE str_endswith(timeout, "s") -> 1
      [] str_endswith(timeout, "m") -> 60
      [] str_endswith(timeout, "h") -> 60
      [] str_endswith(timeout, "d") -> 60 * 60 * 24
      [] OTHER -> None

\* The multiplier chosen by the last character; None when the code raises
\* ValueError("Invalid timeout interval").
multiplier(timeout) ==
    CASE str_endswith(timeout, "s") -> 1
      [] str_endswith(timeout, "m") -> 60
      [] str_endswith(timeout, "h") -> 60 * 60
      [] str_endswith(timeout, "d") -> 60 * 60 * 24
      [] OTHER -> None

\* JobTimeOut(timeout): the object's fields, and the exception raised.
JobTimeOut___init__(timeout) ==
    IF timeout = PyNone \/ Len(timeout[2]) = 0
    THEN [exc |-> "none", _timeout_string |-> timeout, _timeout |-> None]
    ELSE IF multiplier(timeout) = None
    THEN [exc |-> "ValueError", _timeout_string |-> timeout, _timeout |-> None]
    ELSE LET time_interval == int(SubSeq(timeout[2], 1, Len(timeout[2]) - 1))
         IN  IF time_interval.exc # "none"
             THEN [exc |-> "ValueError", _timeout_string |-> timeout,
                   _timeout |-> None]
             ELSE [exc |-> "none", _timeout_string |-> timeout,
                   _timeout |-> time_interval.value * multiplier(timeout)]

\* "if self._timeout:" in __enter__: None and 0 are false.
arms(job_time_out) ==
    job_time_out._timeout # None /\ job_time_out._timeout # 0

\* JobTimeOut.__enter__: the pending alarm of the process afterwards.
JobTimeOut___enter__(job_time_out, pending) ==
    IF arms(job_time_out) THEN TRUE ELSE pending

\* JobTimeOut.__exit__ is "pass": the pending alarm stays as it is.
JobTimeOut___exit__(job_time_out, pending) == pending

CallableKinds == {"JobCallable", "WorkflowCallable"}

\* The arguments of a callable's arglist.
ArgNames == <<"arg1", "arg2">>

\* JobCallable(id, func, argset, arglist, storage, logs_dir, timeout)
JobCallable___init__(kind, nargs, has_ret, timeout) ==
    LET jto == JobTimeOut___init__(timeout)
    IN  [exc |-> jto.exc,
         obj |-> [kind |-> kind, nargs |-> nargs, has_ret |-> has_ret,
                  job_time_out |-> [_timeout_string |-> jto._timeout_string,
                                    _timeout |-> jto._timeout],
                  finished |-> FALSE, ret_bound |-> FALSE]]

Ev(name) == <<name, 0>>

\* The statements of __call__ inside the try block.
TryRegion == {"try", "allocate", "pull", "func", "push"}

\* The loops over the arglist.
ArgPhases == {"allocate", "pull", "push"}

\* Variant of __call__ without the try block.
unwind_no_try(at) == "raise"

\* Where control goes when an exception is raised at a position of
\* __call__: to the except clause inside the try block, out of the call
\* elsewhere.
unwind(at) == IF at \in TryRegion THEN "except" ELSE "raise"

\* Variant of the with block that pulls the arguments after the function.
phase_after_pull_late(phase) ==
    CASE phase = "allocate" -> "func"
      [] phase = "func" -> "pull"
      [] phase = "pull" -> "push"
      [] phase = "push" -> "finished"

\* The order of the statements in the with block.
phase_after(phase) ==
    CASE phase = "allocate" -> "pull"
      [] phase = "pull" -> "func"
      [] phase = "func" -> "push"
      [] phase = "push" -> "finished"

CallInit ==
    /\ FsEmpty /\ JobIdle /\ RetryIdle /\ OpIdle /\ ObjIdle
    /\ CallIdle /\ DefIdle /\ LaterIdle

callRest == <<fsVars, jobVars, retryVars, objVars, defVars, laterVars>>

\* instance.create_callable(), with the ctx holding one of the timeouts
CreateCallable(timeouts) ==
    /\ call_pc = "idle"
    /\ \E t \in timeouts, k \in CallableKinds, n \in 0..Len(ArgNames),
          r \in BOOLEAN :
         LET c == JobCallable___init__(k, n, r, t)
         IN  /\ ctx_timeout' = t
             /\ callable' = IF c.exc = "none" THEN c.obj ELSE NoCallable
             /\ exc' = c.exc
    /\ last_op' = <<"create_callable", "">>
    /\ raised' = NoException
    /\ trace' = <<>>
    /\ outcome' = "none"
    /\ UNCHANGED <<callRest, call_pc, argi, sys_streams, old_streams, alarm>>

\* __call__ up to the try statement: the log stores are allocated and
\* opened, the streams saved and redirected.
Call ==
    /\ call_pc = "idle"
    /\ callable.kind # "none"
    /\ outcome = "none"
    /\ old_streams' = sys_streams
    /\ sys_streams' = "job"
    /\ trace' = <<Ev("redirect")>>
    /\ call_pc' = "try"
    /\ UNCHANGED <<callRest, opVars, ctx_timeout, callable, argi, alarm, raised,
                   outcome>>

\* The with statement enters the timer, the memory tracker and the timeout.
EnterRegion ==
    /\ call_pc = "try"
    /\ alarm' = JobTimeOut___enter__(callable.job_time_out, alarm)
    /\ trace' = trace \o <<Ev("enter")>> \o
                    (IF arms(callable.job_time_out) THEN <<Ev("arm")>> ELSE <<>>)
    /\ call_pc' = "allocate"
    /\ argi' = 1
    /\ UNCHANGED <<callRest, opVars, ctx_timeout, callable, sys_streams,
                   old_streams, raised, outcome>>

\* arg.allocate(), arg.pull() or arg.push() of the next argument, which
\* returns or raises.
ArgOp ==
    /\ call_pc \in ArgPhases
    /\ callable.kind = "JobCallable"
    /\ argi <= callable.nargs
    /\ \E ok \in BOOLEAN :
         IF ok
         THEN /\ trace' = Append(trace, <<call_pc, argi>>)
              /\ argi' = argi + 1
              /\ UNCHANGED <<call_pc, raised>>
         ELSE /\ trace' = trace \o <<<<call_pc, argi>>, Ev("arg_raise")>>
              /\ raised' = <<"Exception", call_pc>>
              /\ call_pc' = unwind(call_pc)
              /\ UNCHANGED argi
    /\ UNCHANGED <<callRest, opVars, ctx_timeout, callable, sys_streams,
                   old_streams, alarm, outcome>>

\* The loop over the arglist has ended; a WorkflowCallable's allocate, pull
\* and push are "pass".  After the pulls the function is invoked.
PhaseDone ==
    /\ call_pc \in ArgPhases
    /\ callable.kind = "WorkflowCallable" \/ argi > callable.nargs
    /\ call_pc' = phase_after(call_pc)
    /\ argi' = 1
    /\ trace' = IF phase_after(call_pc) = "func"
                THEN Append(trace, Ev("func_call"))
                ELSE trace
    /\ UNCHANGED <<callRest, opVars, ctx_timeout, callable, sys_streams,
                   old_streams, alarm, raised, outcome>>

\* The function returns; its value is bound into callset.ret when present.
CallFuncReturn ==
    /\ call_pc = "func"
    /\ callable' = [callable EXCEPT !.ret_bound = callable.has_ret]
    /\ trace' = Append(trace, Ev("func_return"))
    /\ call_pc' = phase_after("func")
    /\ argi' = 1
    /\ UNCHANGED <<callRest, opVars, ctx_timeout, sys_streams, old_streams,
                   alarm, raised, outcome>>

CallFuncRaise ==
    /\ call_pc = "func"
    /\ raised' = <<"Exception", "func">>
    /\ trace' = Append(trace, Ev("func_raise"))
    /\ call_pc' = unwind(call_pc)
    /\ UNCHANGED <<callRest, opVars, ctx_timeout, callable, argi, sys_streams,
                   old_streams, alarm, outcome>>

\* The with block is left, finished is set and the finally clause restores
\* the streams.
Finish ==
    /\ call_pc = "finished"
    /\ alarm' = JobTimeOut___exit__(callable.job_time_out, alarm)
    /\ callable' = [callable EXCEPT !.finished = TRUE]
    /\ sys_streams' = old_streams
    /\ trace' = Append(trace, Ev("restore"))
    /\ call_pc' = "stdout_push"
    /\ UNCHANGED <<callRest, opVars, ctx_timeout, argi, old_streams, raised,
                   outcome>>

\* The except clause writes the trace to sys.stderr and the finally clause
\* restores the streams.
Except ==
    /\ call_pc = "except"
    /\ alarm' = JobTimeOut___exit__(callable.job_time_out, alarm)
    /\ trace' = trace \o
           <<Ev(IF sys_streams = "job" THEN "trace_to_job_err"
                                       ELSE "trace_to_original"),
             Ev("restore")>>
    /\ sys_streams' = old_streams
    /\ call_pc' = "stdout_push"
    /\ UNCHANGED <<callRest, opVars, ctx_timeout, callable, argi, old_streams,
                   raised, outcome>>

\* self.stdout_storage.push()
StdoutPush ==
    /\ call_pc = "stdout_push"
    /\ trace' = Append(trace, Ev("stdout_push"))
    /\ call_pc' = "stderr_push"
    /\ UNCHANGED <<callRest, opVars, ctx_timeout, callable, argi, sys_streams,
                   old_streams, alarm, raised, outcome>>

\* self.stderr_storage.push(), after which __call__ returns
StderrPush ==
    /\ call_pc = "stderr_push"
    /\ trace' = Append(trace, Ev("stderr_push"))
    /\ call_pc' = "idle"
    /\ outcome' = "returned"
    /\ UNCHANGED <<callRest, opVars, ctx_timeout, callable, argi, sys_streams,
                   old_streams, alarm, raised>>

\* An exception raised outside the try block leaves __call__.
Propagate ==
    /\ call_pc = "raise"
    /\ call_pc' = "idle"
    /\ outcome' = "raised"
    /\ UNCHANGED <<callRest, opVars, ctx_timeout, callable, argi, sys_streams,
                   old_streams, alarm, raised, trace>>

\* The pending SIGALRM is delivered and JobTimeOut.handler raises
\* TimeOutError in whatever the process is executing: a statement of
\* __call__, or the code that runs between two calls.
AlarmFires ==
    /\ alarm
    /\ call_pc \in TryRegion \cup {"stdout_push", "stderr_push", "idle"}
    /\ alarm' = FALSE
    /\ IF call_pc = "idle"
       THEN UNCHANGED <<call_pc, raised, trace>>
       ELSE /\ raised' = <<"TimeOutError", call_pc>>
            /\ trace' = Append(trace, Ev("timeout"))
            /\ call_pc' = unwind(call_pc)
    /\ UNCHANGED <<callRest, opVars, ctx_timeout, callable, argi, sys_streams,
                   old_streams, outcome>>

\* The timeouts the callables of SpecCall are created with: none, empty,
\* one second, zero seconds and one without a unit.
CallTimeouts ==
    {PyNone, Str(<<>>), Str(<<"1", "s">>), Str(<<"0", "s">>), Str(<<"1", "x">>)}

CallNext ==
    \/ CreateCallable(CallTimeouts)
    \/ Call
    \/ EnterRegion
    \/ ArgOp
    \/ PhaseDone
    \/ CallFuncReturn
    \/ CallFuncRaise
    \/ Finish
    \/ Except
    \/ StdoutPush
    \/ StderrPush
    \/ Propagate
    \/ AlarmFires

\* One process that creates and calls JobCallables one after another.
SpecCall == CallInit /\ [][CallNext]_vars

CreateNext == last_op = NoOp /\ CreateCallable(TimeoutStrings)

\* One create_callable in a fresh process, over every timeout string.
SpecCreate == CallInit /\ [][CreateNext]_vars

(***************************************************************************)
(* CallSet, job definitions and JobInstance.finalize (jobs.py)             *)
(***************************************************************************)
\* The types of the values given to CallSet(ret, args, kwargs).
RetTypes == {"NoneType", "Managed", "int"}
ArgsTypes == {"NoneType", "tuple", "list", "str"}
KwargsTypes == {"NoneType", "dict", "list"}

isinstance(type, classes) == type \in classes

\* Variant of CallSet.__init__ without the check of ret.
CallSet___init___any_ret(ret, args, kwargs) ==
    IF args # "NoneType" /\ ~isinstance(args, {"tuple", "list"})
    THEN [exc |-> "ValueError", obj |-> NoCallSet]
    ELSE IF kwargs # "NoneType" /\ ~isinstance(kwargs, {"dict"})
    THEN [exc |-> "ValueError", obj |-> NoCallSet]
    ELSE [exc |-> "none",
          obj |-> [ret |-> ret,
                   args |-> IF args = "NoneType" THEN "tuple" ELSE args,
                   kwargs |-> IF kwargs = "NoneType" THEN "dict" ELSE kwargs]]

\* CallSet(ret, args, kwargs): the object's fields, and the exception raised.
CallSet___init__(ret, args, kwargs) ==
    IF ret # "NoneType" /\ ~isinstance(ret, {"Managed"})
    THEN [exc |-> "ValueError", obj |-> NoCallSet]
    ELSE IF args # "NoneType" /\ ~isinstance(args, {"tuple", "list"})
    THEN [exc |-> "ValueError", obj |-> NoCallSet]
    ELSE IF kwargs # "NoneType" /\ ~isinstance(kwargs, {"dict"})
    THEN [exc |-> "ValueError", obj |-> NoCallSet]
    ELSE [exc |-> "none",
          obj |-> [ret |-> ret,
                   args |-> IF args = "NoneType" THEN "tuple" ELSE args,
                   kwargs |-> IF kwargs = "NoneType" THEN "dict" ELSE kwargs]]

MaxNodes == 2
MaxArgs == 2

NodeIds == {"node1", "node2"}

\* What retrieve_nodes(axes) can return.
NodeSeqs == UNION {[1..n -> NodeIds] : n \in 0..MaxNodes}

\* What _create_arg appends to the arglist: an Arg, an Arg with is_split,
\* or an object that is not an Arg.
ArgTypes == {"Arg", "SplitArg", "object"}

ArgLists == UNION {[1..n -> ArgTypes] : n \in 0..MaxArgs}

DefinitionClasses == {"JobDefinition", "SetObjDefinition", "SubWorkflowDefinition"}

\* The class each definition's create_job_instances instantiates.
InstanceClass(definition) ==
    CASE definition = "JobDefinition" -> "JobInstance"
      [] definition = "SetObjDefinition" -> "SetObjInstance"
      [] definition = "SubWorkflowDefinition" -> "SubWorkflowInstance"

\* JobInstance(job_def, workflow, db, node)
JobInstance___init__(type, node, resolved) ==
    [type |-> type, node |-> node, arglist |-> resolved]

\* Variant of create_job_instances that walks the nodes backwards.
create_job_instances_reversed(definition, ns, resolved) ==
    [i \in DOMAIN ns |->
        JobInstance___init__(InstanceClass(definition), ns[Len(ns) + 1 - i],
                             resolved)]

\* The instances the generator yields, in order.
create_job_instances(definition, ns, resolved) ==
    [i \in DOMAIN ns |->
        JobInstance___init__(InstanceClass(definition), ns[i], resolved)]

\* Variant of check_require_regenerate that does not look at is_split.
RECURSIVE check_require_regenerate_any_arg(_, _)
check_require_regenerate_any_arg(args, i) ==
    IF i > Len(args) THEN FALSE
    ELSE IF args[i] \in {"Arg", "SplitArg"} THEN TRUE
    ELSE check_require_regenerate_any_arg(args, i + 1)

\* The loop of check_require_regenerate, from the i-th argument on.
RECURSIVE check_require_regenerate(_, _)
check_require_regenerate(args, i) ==
    IF i > Len(args) THEN FALSE
    ELSE IF args[i] = "SplitArg" THEN TRUE
    ELSE check_require_regenerate(args, i + 1)

\* callable.updatedb(db): one arg.updatedb(db) for each argument, in order
updatedb(args) == [i \in DOMAIN args |-> <<"updatedb", i>>]

\* What instance.finalize(callable) does, in order.
JobInstance_finalize(instance) ==
    updatedb(instance.arglist) \o
    (IF check_require_regenerate(instance.arglist, 1)
     THEN <<<<"regenerate", 0>>>>
     ELSE <<>>)

DefInit ==
    /\ FsEmpty /\ JobIdle /\ RetryIdle /\ OpIdle /\ ObjIdle
    /\ CallIdle /\ DefIdle /\ LaterIdle

defRest == <<fsVars, jobVars, retryVars, objVars, callVars, laterVars>>

\* CallSet(ret=..., args=..., kwargs=...) for a job being defined
CallSetInit ==
    /\ job_def = "none"
    /\ \E ret \in RetTypes, args \in ArgsTypes, kwargs \in KwargsTypes :
         LET c == CallSet___init__(ret, args, kwargs)
         IN  /\ callset_in' = <<ret, args, kwargs>>
             /\ callset' = c.obj
             /\ exc' = c.exc
    /\ last_op' = <<"CallSet", "">>
    /\ UNCHANGED <<defRest, job_def, nodes, instances, fin_trace>>

\* The job is defined with the CallSet as its argset, and the workflow
\* creates its instances.  SetObjDefinition builds its own
\* CallSet(ret=obj, args=(value,)).
CreateJobInstances ==
    /\ job_def = "none"
    /\ callset # NoCallSet
    /\ \E definition \in DefinitionClasses, ns \in NodeSeqs,
          resolved \in ArgLists :
         /\ definition = "SetObjDefinition" =>
                (callset.ret = "Managed" /\ callset.args = "tuple")
         /\ callset.ret = "Managed" => Len(resolved) > 0
         /\ job_def' = definition
         /\ nodes' = ns
         /\ instances' = create_job_instances(definition, ns, resolved)
    /\ last_op' = <<"create_job_instances", "">>
    /\ exc' = "none"
    /\ UNCHANGED <<defRest, callset_in, callset, fin_trace>>

\* instance.finalize(callable), after the instance's callable has run
JobFinalize ==
    /\ \E i \in DOMAIN instances :
         fin_trace' = <<<<"finalize", i>>>> \o JobInstance_finalize(instances[i])
    /\ last_op' = <<"finalize", "">>
    /\ exc' = "none"
    /\ UNCHANGED <<defRest, callset_in, callset, job_def, nodes, instances>>

DefNext ==
    \/ CallSetInit
    \/ CreateJobInstances
    \/ JobFinalize

SpecDef == DefInit /\ [][DefNext]_vars

(***************************************************************************)
(* JobInstance.init_inputs_outputs (jobs.py)                               *)
(***************************************************************************)
\* The identities (.id) of the resources and dependencies arguments name.
Deps == {"dep1", "dep2"}

MaxNodeInputs == 1

\* What an element of the arglist answers to get_inputs, get_outputs,
\* get_merge_inputs and get_split_outputs: an input, an output, a merge or
\* a split argument of one dependency, or an object that is not an Arg.
IoArg(kind, d) ==
    [is_Arg |-> kind # "object",
     inputs |-> IF kind \in {"input", "object"} THEN <<d>> ELSE <<>>,
     outputs |-> IF kind = "output" THEN <<d>> ELSE <<>>,
     merge_inputs |-> IF kind = "merge" THEN <<d>> ELSE <<>>,
     split_outputs |-> IF kind = "split" THEN <<d>> ELSE <<>>]

IoArgs ==
    {IoArg(kind, d) : kind \in {"input", "output", "merge", "split", "object"},
                      d \in Deps}

IoArgLists == UNION {[1..n -> IoArgs] : n \in 0..MaxArgs}

NodeInputLists == UNION {[1..n -> Deps] : n \in 0..MaxNodeInputs}

\* The loop over the arglist: the list every Arg's answer was extended to.
RECURSIVE extend(_, _, _)
extend(args, field, i) ==
    IF i > Len(args) THEN <<>>
    ELSE (IF args[i].is_Arg THEN args[i][field] ELSE <<>>) \o
         extend(args, field, i + 1)

\* Variant of init_inputs_outputs that appends every merge input.
init_inputs_outputs_all_merge(args, node_ins) ==
    [inputs |-> extend(args, "inputs", 1) \o extend(args, "merge_inputs", 1)
                \o node_ins,
     outputs |-> extend(args, "outputs", 1) \o extend(args, "split_outputs", 1)]

\* self.inputs and self.outputs after init_inputs_outputs()
init_inputs_outputs(args, node_ins) ==
    LET merge_inputs == extend(args, "merge_inputs", 1)
        split_outputs == extend(args, "split_outputs", 1)
        split_output_ids == Range(split_outputs)
        not_split(input_) == input_ \notin split_output_ids
    IN  [inputs |-> extend(args, "inputs", 1) \o
                    SelectSeq(merge_inputs, not_split) \o node_ins,
         outputs |-> extend(args, "outputs", 1) \o split_outputs]

IoInit ==
    /\ FsEmpty /\ JobIdle /\ RetryIdle /\ OpIdle /\ ObjIdle /\ CallIdle
    /\ DefIdle /\ AzIdle /\ ShelfIdle /\ FrameIdle /\ FinalIdle
    /\ io_arglist \in IoArgLists
    /\ node_inputs \in NodeInputLists

\* JobInstance.__init__ calls init_inputs_outputs() once.
InitInputsOutputs ==
    /\ last_op = NoOp
    /\ LET io == init_inputs_outputs(io_arglist, node_inputs)
       IN  inputs' = io.inputs /\ outputs' = io.outputs
    /\ last_op' = <<"init_inputs_outputs", "">>
    /\ UNCHANGED <<fsVars, retryVars, objVars, callVars, defVars, ioVars, azVars,
                   shelfVars, frameVars, finalVars, exc, is_required_downstream, pc,
                   finished, input_changed, started_missing, wrote>>

IoNext == InitInputsOutputs

SpecIO == IoInit /\ [][IoNext]_vars

(***************************************************************************)
(* AzureJobQueue (contrib/azure/batchqueue.py): send, wait, receive        *)
(***************************************************************************)
\* Times are clock ticks; strftime("%Y-%m-%dT%H:%M:%SZ") keeps whole seconds.
TicksPerSecond == 2

strftime(t) == (t \div TicksPerSecond) * TicksPerSecond

list_max_results == 1000

\* debug_filenames.keys()
DebugTypes == {"job stderr", "job stdout", "upload err", "upload out"}

\* The debug files a download leaves in the job's temps_dir: none, the
\* job's own, or all of them.
DebugFileSets == {{}, {"job stderr", "job stdout"}, DebugTypes}

\* What job_result.pickle holds after the download: no such file, a pickled
\* None, or a pickled result.
ResultFiles == {"absent", "None", "value"}

\* dict operations on sets of <<key, value>> pairs
dict_has(d, k) == \E p \in d : p[1] = k

dict_get(d, k) == (CHOOSE p \in d : p[1] = k)[2]

dict_set(d, k, v) == {p \in d : p[1] # k} \cup {<<k, v>>}

dict_pop(d, k) == {p \in d : p[1] # k}

\* batch_client.task.list with the filter "state eq 'completed'" and the
\* optional stateTransitionTime gt / lt terms.
task_list(ts, gt, lt) ==
    {t \in DOMAIN ts : /\ ts[t].state = "completed"
                       /\ gt # None => ts[t].time > gt
                       /\ lt # None => ts[t].time < lt}

\* sorted(times)[k], for the transition times of the listed tasks
sorted_at(ts, listed, k) ==
    CHOOSE x \in {ts[t].time : t \in listed} :
        /\ Cardinality({t \in listed : ts[t].time < x}) <= k
        /\ k < Cardinality({t \in listed : ts[t].time <= x})

\* Variant of _update_task_state that keeps only the tasks it listed.
_update_task_state_listed_only(q, ts, latest_transition_time) ==
    LET gt == IF q.most_recent_transition_time # None
              THEN strftime(q.most_recent_transition_time) ELSE None
        listed == task_list(ts, gt, None)
    IN  IF listed = {} THEN [queue |-> q, ret |-> FALSE]
        ELSE [queue |-> [q EXCEPT
                           !.most_recent_transition_time =
                               sorted_at(ts, listed, Cardinality(listed) - 1),
                           !.completed_task_ids = listed],
              ret |-> listed # q.completed_task_ids]

\* _update_task_state: the queue afterwards and the value returned.
RECURSIVE _update_task_state(_, _, _)
_update_task_state(q, ts, latest_transition_time) ==
    LET gt == IF q.most_recent_transition_time # None
              THEN strftime(q.most_recent_transition_time) ELSE None
        lt == IF latest_transition_time # None
              THEN strftime(latest_transition_time) ELSE None
        listed == task_list(ts, gt, lt)
        n == Cardinality(listed)
        completed == q.completed_task_ids \cup listed
    IN  IF n >= list_max_results
        THEN _update_task_state(q, ts, sorted_at(ts, listed, n \div 2))
        ELSE IF n = 0
        THEN [queue |-> q, ret |-> FALSE]
        ELSE [queue |-> [q EXCEPT
                           !.most_recent_transition_time =
                               sorted_at(ts, listed, n - 1),
                           !.completed_task_ids = completed],
              ret |-> Cardinality(completed) >
                      Cardinality(q.completed_task_ids)]

\* send: the queue's fields afterwards
AzureJobQueue_send(q, name, task_id) ==
    [q EXCEPT !.job_names = dict_set(@, task_id, name),
              !.job_task_ids = dict_set(@, name, task_id),
              !.job_temps_dir = dict_set(@, name, temps_dir_of(name)),
              !.job_blobname_prefix =
                  dict_set(@, name, blobname_prefix(task_id)),
              !.running_task_ids = @ \cup {task_id}]

\* Variant of wait's loop that takes any running task.
wait_candidates_running(q) == q.running_task_ids

\* the tasks the for loop of wait ranges over
wait_candidates(q) == q.running_task_ids \cap q.completed_task_ids

\* Variant of receive that leaves the queue's fields alone.
AzureJobQueue_receive_keep(q, name) == q

\* Variant of receive that leaves the task in running_task_ids.
AzureJobQueue_receive_still_running(q, name) ==
    LET task_id == dict_get(q.job_task_ids, name)
    IN  [q EXCEPT !.job_task_ids = dict_pop(@, name),
                  !.job_names = dict_pop(@, task_id),
                  !.job_temps_dir = dict_pop(@, name),
                  !.job_blobname_prefix = dict_pop(@, name)]

\* receive: the queue's fields after the pops and the remove
AzureJobQueue_receive(q, name) ==
    LET task_id == dict_get(q.job_task_ids, name)
    IN  [q EXCEPT !.job_task_ids = dict_pop(@, name),
                  !.job_names = dict_pop(@, task_id),
                  !.job_temps_dir = dict_pop(@, name),
                  !.job_blobname_prefix = dict_pop(@, name),
                  !.running_task_ids = @ \ {task_id}]

\* Variant of receive's test that takes the file's content as it is.
receive_raises_absent_only(file) == file = "absent"

\* receive raises ReceiveError: no result file, or it holds None
receive_raises(file) == file = "absent" \/ file = "None"

\* the lines of a debug file
log_lines(debug_type) == <<"lines of", debug_type>>

\* _create_error_text: 'failed to execute' and one entry per debug file
_create_error_text(logs) ==
    {<<"failed to execute">>} \cup
    {IF debug_type \in logs THEN <<debug_type, log_lines(debug_type)>>
     ELSE <<debug_type, "missing">> : debug_type \in DebugTypes}

\* Variant of length that counts the completed tasks.
length_completed(q) == Cardinality(q.completed_task_ids)

\* the length property

length(q) == Cardinality(q.job_names)

\* the empty property
empty(q) == length(q) = 0

\* History: the task a name stands for, the last one sent under it.
owner(ts, name) ==
    LET sent == {i \in DOMAIN TaskIds : ts[TaskIds[i]].name = name}
    IN  TaskIds[CHOOSE i \in sent : \A j \in sent : j <= i]

QueueInit ==
    /\ FsEmpty /\ JobIdle /\ RetryIdle /\ OpIdle /\ ObjIdle /\ CallIdle
    /\ DefIdle /\ IoIdle /\ AzIdle /\ ShelfIdle /\ FrameIdle /\ FinalIdle

queueRest ==
    <<fs, content, jobVars, retryVars, objVars, callVars, defVars, ioVars,
      shelfVars, frameVars, finalVars>>

\* send(ctx, name, sent, temps_dir): name is unique among the jobs in the
\* queue; uuid1() gives a new task id and add_task creates the task.
Send(name) ==
    /\ wait_pc = "idle"
    /\ num_tasks < Len(TaskIds)
    /\ ~dict_has(queue.job_task_ids, name)
    /\ LET task_id == TaskIds[num_tasks + 1]
       IN  /\ queue' = AzureJobQueue_send(queue, name, task_id)
           /\ tasks' = [tasks EXCEPT ![task_id] =
                          [state |-> "active", time |-> clock, name |-> name]]
    /\ num_tasks' = num_tasks + 1
    /\ recv' = NoRecv
    /\ last_op' = <<"send", name>> /\ exc' = "none"
    /\ UNCHANGED <<queueRest, clock, wait_pc, wait_immediate, reported,
                   reports, received_tasks>>

\* The batch service: a task reaches the completed state.
TaskCompletes(task_id) ==
    /\ tasks[task_id].state = "active"
    /\ tasks' = [tasks EXCEPT ![task_id].state = "completed",
                              ![task_id].time = clock]
    /\ UNCHANGED <<queueRest, clock, opVars, queue, num_tasks, wait_pc,
                   wait_immediate, reported, recv, reports, received_tasks>>

\* wait(immediate) is called; the name the last wait returned, if any, was
\* received.
WaitCall(immediate) ==
    /\ wait_pc = "idle" /\ reported = "none"
    /\ wait_pc' = "loop" /\ wait_immediate' = immediate
    /\ recv' = NoRecv
    /\ last_op' = <<"wait", "">> /\ exc' = "none"
    /\ UNCHANGED <<queueRest, clock, queue, tasks, num_tasks, reported,
                   reports, received_tasks>>

\* lines 661-662: the first task of the intersection, in the set's order
WaitReturn ==
    /\ wait_pc = "loop"
    /\ \E task_id \in wait_candidates(queue) :
         IF dict_has(queue.job_names, task_id)
         THEN /\ reported' = dict_get(queue.job_names, task_id)
              /\ reports' = [reports EXCEPT ![owner(tasks, reported')] = @ + 1]
              /\ exc' = "none"
         ELSE /\ reported' = "none" /\ exc' = "KeyError"
              /\ UNCHANGED reports
    /\ wait_pc' = "idle" /\ wait_immediate' = FALSE
    /\ UNCHANGED <<queueRest, clock, last_op, queue, tasks, num_tasks, recv,
                   received_tasks>>

\* lines 664-665: no task to return; _update_task_state, and sleep when it
\* returned False
WaitUpdate ==
    /\ wait_pc = "loop"
    /\ wait_candidates(queue) = {}
    /\ LET r == _update_task_state(queue, tasks, None)
       IN  /\ queue' = r.queue
           /\ wait_pc' = IF r.ret THEN "loop" ELSE "sleep"
    /\ UNCHANGED <<queueRest, clock, opVars, tasks, num_tasks, wait_immediate,
                   reported, recv, reports, received_tasks>>

\* time.sleep(20) returns
WaitSleep ==
    /\ wait_pc = "sleep"
    /\ wait_pc' = "loop"
    /\ UNCHANGED <<queueRest, clock, opVars, queue, tasks, num_tasks,
                   wait_immediate, reported, recv, reports, received_tasks>>

\* lines 660, 667-680: the ten minutes are over when the inner loop tests
\* the time; every completed task of the service is added to
\* completed_task_ids and the loop starts again
WaitTimeout ==
    /\ wait_pc = "loop"
    /\ queue' = [queue EXCEPT !.completed_task_ids =
                    @ \cup task_list(tasks, None, None)]
    /\ UNCHANGED <<queueRest, clock, opVars, tasks, num_tasks, wait_pc,
                   wait_immediate, reported, recv, reports, received_tasks>>

\* receive(name) for the name wait returned; the download leaves
\* job_result.pickle and the debug files as the task wrote them.
Receive(file, logs) ==
    /\ wait_pc = "idle" /\ reported # "none"
    /\ queue' = AzureJobQueue_receive(queue, reported)
    /\ received_tasks' = received_tasks \cup {owner(tasks, reported)}
    /\ recv' = [name |-> reported, file |-> file,
                result |-> IF receive_raises(file) THEN "none" ELSE file,
                logs |-> logs,
                text |-> IF receive_raises(file)
                         THEN _create_error_text(logs) ELSE {}]
    /\ exc' = IF receive_raises(file) THEN "ReceiveError" ELSE "none"
    /\ last_op' = <<"receive", reported>>
    /\ reported' = "none"
    /\ UNCHANGED <<queueRest, clock, tasks, num_tasks, wait_pc,
                   wait_immediate, reports>>

QueueNext ==
    \/ \E name \in JobNames : Send(name)
    \/ \E task_id \in Range(TaskIds) : TaskCompletes(task_id)
    \/ \E immediate \in BOOLEAN : WaitCall(immediate)
    \/ WaitReturn
    \/ WaitUpdate
    \/ WaitSleep
    \/ WaitTimeout
    \/ \E file \in ResultFiles, logs \in DebugFileSets : Receive(file, logs)
    \/ Tick

SpecQueue == QueueInit /\ [][QueueNext]_vars

\* The polling of wait under fair scheduling: the loop goes on, a sleep
\* ends, and the ten minutes of the inner loop run out.
SpecQueueFair ==
    /\ SpecQueue
    /\ WF_vars(WaitReturn) /\ WF_vars(WaitUpdate) /\ WF_vars(WaitSleep)
    /\ SF_vars(WaitTimeout)

(***************************************************************************)
(* JobInstance and db.job_shelf (jobs.py): already_run, complete           *)
(***************************************************************************)
MaxLive == 2

MaxCompletions == 2

\* Node.displayname of a job's node and of its workflow's node; '' is the
\* root node's.
NodeDisplayNames == {"", "x"}

\* JobDefinition.name
JobDefNames == {"a", "b"}

\* The JobInstances there can be: workflow.node, node and job_def.name.
JobInstances ==
    [workflow : NodeDisplayNames, node : NodeDisplayNames, name : JobDefNames]

\* JobInstance.id
id(inst) == <<inst.node, inst.name>>

\* JobInstance.displayname: the '/'-prefixed parts, as a sequence
displayname(inst) ==
    LET name0 == <<inst.name>>
        name1 == IF inst.node # "" THEN <<inst.node>> \o name0 ELSE name0
    IN  IF inst.workflow # "" THEN <<inst.workflow>> \o name1 ELSE name1

\* Variant of dict.get(key, default) that finds every key.
shelf_get_any(shelf, key, default) == TRUE

\* job_shelf.get(key, default)
shelf_get(shelf, key, default) ==
    IF dict_has(shelf, key) THEN dict_get(shelf, key) ELSE default

already_run(shelf, inst) == shelf_get(shelf, displayname(inst), FALSE)

\* Variant of complete that writes the shelf under the job's id.
complete_by_id(shelf, inst) == dict_set(shelf, id(inst), TRUE)

\* complete: the shelf afterwards
complete(shelf, inst) == dict_set(shelf, displayname(inst), TRUE)

ShelfInit ==
    /\ FsEmpty /\ JobIdle /\ RetryIdle /\ OpIdle /\ ObjIdle /\ CallIdle
    /\ DefIdle /\ IoIdle /\ AzIdle /\ ShelfIdle /\ FrameIdle /\ FinalIdle

shelfRest ==
    <<fsVars, jobVars, retryVars, opVars, objVars, callVars, defVars, ioVars,
      azVars, frameVars, finalVars>>

\* JobInstance(job_def, workflow, db, node)
NewJobInstance(inst) ==
    /\ inst \notin live
    /\ Cardinality(live) < MaxLive
    /\ live' = live \cup {inst}
    /\ UNCHANGED <<shelfRest, job_shelf, notified>>

\* inst.complete()
Complete(inst) ==
    /\ inst \in live
    /\ Len(notified) < MaxCompletions
    /\ job_shelf' = complete(job_shelf, inst)
    /\ notified' = Append(notified, [workflow |-> inst.workflow, id |-> id(inst)])
    /\ UNCHANGED <<shelfRest, live>>

\* The workflow is regenerated or the pipeline is run again: the instances
\* are gone, the shelf is the database's and stays.
Restart ==
    /\ live # {}
    /\ live' = {}
    /\ UNCHANGED <<shelfRest, job_shelf, notified>>

ShelfNext ==
    \/ \E inst \in JobInstances : NewJobInstance(inst)
    \/ \E inst \in live : Complete(inst)
    \/ Restart

SpecShelf == ShelfInit /\ [][ShelfNext]_vars

(***************************************************************************)
(* JobDefinition.ctx and the instances' copies (jobs.py): __init__, retry  *)
(***************************************************************************)
\* The dicts are objects of a heap, named by their position in it: two
\* names of one position are one dict.
MaxInsts == 2

\* Variant of dict.copy() that returns the dict itself.
dict_copy_alias(h, ref) == [heap |-> h, ref |-> ref]

\* dict.copy(): a new dict with the items of the old one
dict_copy(h, ref) == [heap |-> Append(h, h[ref]), ref |-> Len(h) + 1]

FrameInit ==
    /\ FsEmpty /\ JobIdle /\ RetryIdle /\ OpIdle /\ ObjIdle /\ CallIdle
    /\ DefIdle /\ IoIdle /\ AzIdle /\ ShelfIdle /\ FinalIdle
    /\ \E c \in Contexts : heap = <<c>>
    /\ def_ctx = 1
    /\ insts = <<>>

frameRest ==
    <<fsVars, jobVars, opVars, objVars, callVars, defVars, ioVars, azVars,
      shelfVars, finalVars, job_def_ctx, ctx, retry_idx>>

\* JobInstance.__init__ (lines 77-78) for one more instance of the
\* definition
NewInstanceOfDef ==
    /\ Len(insts) < MaxInsts
    /\ LET r == dict_copy(heap, def_ctx)
       IN  /\ heap' = r.heap
           /\ insts' = Append(insts, [retry_idx |-> 0, ctx |-> r.ref])
    /\ UNCHANGED <<frameRest, retry_ret, def_ctx>>

\* insts[k].retry()
RetryInstance(k) ==
    /\ \E order \in Orders(heap[insts[k].ctx]) :
         LET r == retry(insts[k].retry_idx, heap[insts[k].ctx], order)
         IN  /\ heap' = [heap EXCEPT ![insts[k].ctx] = r.ctx]
             /\ insts' = [insts EXCEPT ![k].retry_idx = r.retry_idx]
             /\ retry_ret' = r.ret
    /\ UNCHANGED <<frameRest, def_ctx>>

\* workflow.regenerate(): the instances and their dicts are dropped, the
\* definition stays.
RegenerateInstances ==
    /\ insts # <<>>
    /\ insts' = <<>>
    /\ heap' = <<heap[def_ctx]>>
    /\ def_ctx' = 1
    /\ retry_ret' = "none"
    /\ UNCHANGED frameRest

FrameNext ==
    \/ NewInstanceOfDef
    \/ \E k \in DOMAIN insts : RetryInstance(k)
    \/ RegenerateInstances

SpecFrame == FrameInit /\ [][FrameNext]_vars

(***************************************************************************)
(* Resource.touch and JobInstance.touch_outputs over the three variants    *)
(***************************************************************************)
\* Variant of TempObjResource.touch that touches the object's file.
TempObjResource_touch_file(f, is_input, now) ==
    touch(f, TempObjResource_get_filename(is_input), now)

\* TempObjResource.touch: pass
TempObjResource_touch(f, is_input, now) == f

\* The resources a job can have as outputs: a user file, a temporary file
\* and a temporary object (is_input = False), named by their filenames.
OutputVariants == <<"user", "temp", TempObjResource_get_filename(FALSE)>>

\* The output lists of the model: one or more of the variants.
OutputLists ==
    {SelectSeq(OutputVariants, LAMBDA r : r \in S) :
        S \in SUBSET Range(OutputVariants) \ {{}}}

\* resource.touch(db), by the resource's class
Resource_touch(f, r, now) ==
    IF r = "temp" THEN TempFileResource_touch(f, r, now)
    ELSE IF r \in ObjPaths
    THEN TempObjResource_touch(f, r = TempObjResource_get_filename(TRUE), now)
    ELSE UserResource_touch(f, r, now)

\* resource.get_createtime(db), by the resource's class
Resource_get_createtime(f, r) ==
    IF r = "temp" THEN TempFileResource_get_createtime(f, r)
    ELSE IF r \in ObjPaths
    THEN TempObjResource_get_createtime(f, r = TempObjResource_get_filename(TRUE))
    ELSE UserResource_get_createtime(f, r)

\* The createtime of every resource, in the shape out_of_date reads its
\* dates from: a resource that has no createtime is a missing file.
Createtimes(f) == [r \in Paths |-> Resource_get_createtime(f, r)]

\* touch_outputs(): output.touch() for every output, in order
RECURSIVE touch_outputs(_, _, _, _)
touch_outputs(f, outs, now, i) ==
    IF i > Len(outs) THEN f
    ELSE touch_outputs(Resource_touch(f, outs[i], now), outs, now, i + 1)

TouchInit ==
    /\ FsEmpty /\ RetryIdle /\ OpIdle /\ ObjIdle /\ CallIdle /\ DefIdle
    /\ LaterIdle
    /\ inputs = <<"in1">>
    /\ outputs \in OutputLists
    /\ is_required_downstream = FALSE
    /\ pc = "idle" /\ finished = FALSE /\ input_changed = FALSE
    /\ started_missing = FALSE /\ wrote = {}

touchRest ==
    <<laterVars, callVars, defVars, retryVars, objVars, clock, content, inputs,
      outputs, is_required_downstream, pc, finished, started_missing, wrote>>

\* The user writes an input file of the job.
WriteJobInput ==
    /\ \E i \in DOMAIN inputs :
         /\ fs' = [fs EXCEPT ![inputs[i]] = clock]
         /\ last_op' = <<"write_input", inputs[i]>>
    /\ exc' = "none"
    /\ input_changed' = TRUE
    /\ UNCHANGED touchRest

\* A job pickles its output object into the temporary object's file.
ObjWritten ==
    /\ fs' = [fs EXCEPT ![TempObjResource_get_filename(FALSE)] = clock]
    /\ last_op' = <<"obj_written", TempObjResource_get_filename(FALSE)>>
    /\ exc' = "none"
    /\ UNCHANGED <<touchRest, input_changed>>

\* TempObjResource.touch(db)
TouchObj ==
    /\ \E is_input \in BOOLEAN :
         /\ fs' = TempObjResource_touch(fs, is_input, clock)
         /\ last_op' = <<"touch", TempObjResource_get_filename(is_input)>>
    /\ exc' = "none"
    /\ UNCHANGED <<touchRest, input_changed>>

\* job.touch_outputs()
TouchOutputs ==
    /\ fs' = touch_outputs(fs, outputs, clock, 1)
    /\ last_op' = <<"touch_outputs", "">>
    /\ exc' = "none"
    /\ input_changed' = FALSE
    /\ UNCHANGED touchRest

TouchNext ==
    \/ Tick
    \/ WriteJobInput
    \/ ObjWritten
    \/ Cleanup
    \/ Touch
    \/ TouchObj
    \/ TouchOutputs

SpecTouch == TouchInit /\ [][TouchNext]_vars

(***************************************************************************)
(* JobCallable.__call__ on two worker threads of one process (jobs.py)     *)
(***************************************************************************)
\* sys.stdout / sys.stderr are the process's; old_stdout / old_stderr and
\* the log files are each call's own.  The stream of thread t's log files:
JobFile(t) == IF t = 1 THEN "job1" ELSE "job2"

ThreadInit ==
    /\ FsEmpty /\ JobIdle /\ RetryIdle /\ OpIdle /\ ObjIdle /\ CallIdle
    /\ DefIdle /\ IoIdle /\ AzIdle /\ ShelfIdle /\ FrameIdle /\ ThreadIdle
    /\ ResendIdle /\ BlobIdle /\ ExitIdle

threadRest ==
    <<fsVars, jobVars, retryVars, opVars, objVars, defVars, ioVars, azVars,
      shelfVars, frameVars, resendVars, blobVars, exitVars, ctx_timeout,
      callable, call_pc, argi, old_streams, alarm, raised, trace, outcome>>

\* line 362: old_stdout, old_stderr = sys.stdout, sys.stderr
ThreadSave(t) ==
    /\ th_pc[t] = "idle"
    /\ th_old' = [th_old EXCEPT ![t] = sys_streams]
    /\ th_pc' = [th_pc EXCEPT ![t] = "saved"]
    /\ UNCHANGED <<threadRest, sys_streams, th_out>>

\* line 363: sys.stdout, sys.stderr = stdout_file, stderr_file
ThreadRedirect(t) ==
    /\ th_pc[t] = "saved"
    /\ sys_streams' = JobFile(t)
    /\ th_pc' = [th_pc EXCEPT ![t] = "try"]
    /\ UNCHANGED <<threadRest, th_old, th_out>>

\* lines 364-375: the job's function prints, or the except clause writes
\* the traceback to sys.stderr
ThreadWrite(t) ==
    /\ th_pc[t] = "try"
    /\ th_out' = th_out \cup {<<t, sys_streams>>}
    /\ UNCHANGED <<threadRest, sys_streams, th_pc, th_old>>

\* lines 376-377: finally: sys.stdout, sys.stderr = old_stdout, old_stderr
ThreadRestore(t) ==
    /\ th_pc[t] = "try"
    /\ sys_streams' = th_old[t]
    /\ th_pc' = [th_pc EXCEPT ![t] = "push"]
    /\ UNCHANGED <<threadRest, th_old, th_out>>

\* lines 378-379: the log files are pushed and __call__ returns
ThreadReturn(t) ==
    /\ th_pc[t] = "push"
    /\ th_pc' = [th_pc EXCEPT ![t] = "returned"]
    /\ UNCHANGED <<threadRest, sys_streams, th_old, th_out>>

ThreadNext ==
    \E t \in Threads :
        \/ ThreadSave(t)
        \/ ThreadRedirect(t)
        \/ ThreadWrite(t)
        \/ ThreadRestore(t)
        \/ ThreadReturn(t)

SpecThread == ThreadInit /\ [][ThreadNext]_vars

(***************************************************************************)
(* Staleness claims (SpecJob)                                              *)
(***************************************************************************)
NonEmptyJob == Len(inputs) > 0 /\ Len(outputs) > 0

AllOutputsExist == \A o \in Range(outputs) : fs[o] # None

\* C1: with at least one input and one output and is_required_downstream
\* unset, out_of_date() is true exactly when some output createtime is None
\* or some input is strictly newer than some output (max(inputs) >
\* min(outputs)); an input as old as the oldest output does not make the
\* job stale.
C1_OutOfDateIff ==
    (NonEmptyJob /\ ~is_required_downstream) =>
        (out_of_date(fs, inputs, outputs) <=>
            \/ \E o \in Range(outputs) : fs[o] = None
            \/ \E i \in Range(inputs), o \in Range(outputs) :
                   fs[i] # None /\ fs[o] # None /\ fs[i] > fs[o])

\* The equality case: the newest input is exactly as old as the oldest
\* output, and the job is up to date.
C1_Witness ==
    /\ NonEmptyJob /\ ~is_required_downstream /\ AllOutputsExist
    /\ \E i \in Range(inputs) :
          /\ fs[i] # None
          /\ \A j \in Range(inputs) : fs[j] <= fs[i]
          /\ \E o \in Range(outputs) :
                fs[o] = fs[i] /\ \A q \in Range(outputs) : fs[q] >= fs[o]
    /\ ~out_of_date(fs, inputs, outputs)

\* C2: a job with inputs and outputs that is marked is_required_downstream
\* is reported stale by out_of_date(), also when every output exists and no
\* input is newer than the oldest output.
C2_RequiredDownstreamStale ==
    (NonEmptyJob /\ is_required_downstream) =>
        out_of_date(fs, inputs, outputs)

\* C3: a job with zero inputs or zero outputs is reported stale in every
\* state, whatever the createtimes of the resources it has.
C3_EmptyAlwaysStale ==
    (Len(inputs) = 0 \/ Len(outputs) = 0) =>
        out_of_date(fs, inputs, outputs)

\* A job without inputs whose outputs all exist (its callable has run).
C3_Witness ==
    /\ Len(inputs) = 0 /\ Len(outputs) > 0 /\ AllOutputsExist
    /\ finished
    /\ out_of_date(fs, inputs, outputs)

\* C4: a job with one persistent-file input and one persistent-file output
\* that is missing is out of date; once its callable has run successfully,
\* its function having created the output, and the input has not been
\* written since the run began, out_of_date() reports up to date in every
\* later state.
C4_UpToDateAfterRun ==
    (Len(inputs) = 1 /\ Len(outputs) = 1) =>
        /\ (fs[inputs[1]] # None /\ fs[outputs[1]] = None)
               => out_of_date(fs, inputs, outputs)
        /\ (fs[inputs[1]] # None /\ finished /\ wrote = Range(outputs)
                /\ ~input_changed)
               => ~out_of_date(fs, inputs, outputs)

\* The run of the scenario: the output was missing when the callable began,
\* the callable finished, the input is untouched, time has passed since.
C4_Witness ==
    /\ Len(inputs) = 1 /\ Len(outputs) = 1
    /\ fs[inputs[1]] # None /\ started_missing /\ finished /\ ~input_changed
    /\ wrote = Range(outputs)
    /\ pc = "idle" /\ clock > fs[outputs[1]] /\ fs[outputs[1]] > fs[inputs[1]]
    /\ ~out_of_date(fs, inputs, outputs)

(***************************************************************************)
(* Retry claims (SpecRetry)                                                *)
(***************************************************************************)
NumRetry == get(ctx, Opt("num_retry"), 0)

HasEscalation == \E k \in DOMAIN ctx : IsEscalation(k)

\* C5: retry_idx never exceeds ctx['num_retry'] (0 when absent) and never
\* decreases; a retry() made when retry_idx = num_retry returns false and
\* leaves retry_idx and every ctx option unchanged, so no more than
\* num_retry retries are granted.
C5_RetryBounded ==
    /\ [](retry_idx <= NumRetry)
    /\ [][/\ retry_idx' >= retry_idx
          /\ retry_idx = NumRetry =>
                (retry_idx' = retry_idx /\ ctx' = ctx /\ retry_ret' = "False")
         ]_retryVars

\* All num_retry retries were granted and a further one was rejected.
C5_Witness ==
    /\ NumRetry = MaxRetry /\ retry_idx = NumRetry
    /\ HasEscalation /\ retry_ret = "False"

\* What one escalation makes of option o: the factor and the increment,
\* each applied once, in either order.
Escalated(o) ==
    LET F == get(ctx, <<o[1], "_retry_factor">>, 1)
        I == get(ctx, <<o[1], "_retry_increment">>, 0)
    IN  {ctx[o] * F + I, (ctx[o] + I) * F}

Ctx124 ==
    (Opt("mem") :> 1) @@ (<<"mem", "_retry_factor">> :> 2) @@ (Opt("num_retry") :> 2)

\* C6: a granted retry multiplies ctx[opt] by its factor and adds its
\* increment, once each; from {mem: 1, mem_retry_factor: 2, num_retry: 2}
\* mem is 1, 2, 4 over the first attempt and the two granted retries, and
\* the retry asked with retry_idx = num_retry is rejected with mem still 4.
C6_Escalation ==
    /\ [](job_def_ctx = Ctx124 =>
            /\ retry_idx \in 0..2
            /\ ctx[Opt("mem")] = 2 ^ retry_idx)
    /\ [][/\ retry_idx' = retry_idx + 1 =>
                /\ DOMAIN ctx' = DOMAIN ctx
                /\ \A k \in DOMAIN ctx :
                      IF IsEscalation(k) \/ k = Opt("num_retry")
                      THEN ctx'[k] = ctx[k]
                      ELSE ctx'[k] \in Escalated(k)
          /\ (job_def_ctx = Ctx124 /\ retry_idx = 2) =>
                (ctx' = ctx /\ retry_idx' = 2 /\ retry_ret' = "False")
         ]_retryVars

\* The scenario's end: two retries granted, mem is 4, the third rejected.
C6_Witness ==
    /\ job_def_ctx = Ctx124 /\ retry_idx = 2
    /\ ctx[Opt("mem")] = 4 /\ retry_ret = "False"

\* C7: while retry_idx < num_retry, retry() returns false exactly when ctx
\* has no key ending in _retry_factor or _retry_increment, and then changes
\* no ctx option; with an escalation key it returns true.
C7_NoChangeIff ==
    [][retry_idx < NumRetry =>
          /\ retry_ret' = "False" <=> ~HasEscalation
          /\ ~HasEscalation => ctx' = ctx
          /\ HasEscalation => retry_ret' = "True"
      ]_retryVars

\* A retry was granted to a context without escalation keys: no change.
C7_Witness ==
    /\ retry_idx = 1 /\ NumRetry >= 1 /\ ~HasEscalation
    /\ Opt("mem") \in DOMAIN ctx
    /\ retry_ret = "False"

(***************************************************************************)
(* Resource claims (SpecRes)                                               *)
(***************************************************************************)
\* C8: finalize on a user or temp file resource whose staged write path
\* does not exist raises OutputMissingException and leaves no partial
\* state: get_exists and get_createtime answer as before the call, and the
\* temp file's placeholder is neither created nor updated.
C8_FinalizeMissing ==
    [][\A r \in Resources :
          (last_op' = <<"finalize", r>> /\ clock' = clock
              /\ ~exists(fs, WritePath(r))) =>
             /\ exc' = "OutputMissingException"
             /\ get_exists(fs', r) = get_exists(fs, r)
             /\ get_createtime(fs', r) = get_createtime(fs, r)
             /\ fs'["temp._placeholder"] = fs["temp._placeholder"]
             /\ fs' = fs
      ]_vars

\* A finalize of the temp resource failed while its live file was deleted
\* and only the placeholder kept its createtime, at a later time.
C8_Witness ==
    /\ last_op = <<"finalize", "temp">> /\ exc = "OutputMissingException"
    /\ ~get_exists(fs, "temp")
    /\ get_createtime(fs, "temp") # None
    /\ get_createtime(fs, "temp") < clock

(***************************************************************************)
(* Object claims (SpecObj)                                                 *)
(***************************************************************************)
\* Deep equality of two values: the same structure, whatever the
\* identities of the objects.
RECURSIVE DeepEqual(_, _)
DeepEqual(a, b) ==
    /\ class(a) = class(b)
    /\ IF class(a) = "NoneType" THEN TRUE
       ELSE IF class(a) = "int" THEN a[2] = b[2]
       ELSE DeepEqual(a[3], b[3])

InputSlot == "obj._o"
OutputSlot == "obj._i"

\* The value the input slot holds; an absent slot reads as None.
InputValue == IF fs[InputSlot] = None THEN PyNone ELSE load(content[InputSlot], 1)

\* C9: for every object and every prior content of the input slot,
\* finalize(obj) followed immediately by get_obj() returns a value
\* deep-equal to obj; get_obj on an absent input slot returns None.
C9_FinalizeThenGet ==
    [][/\ (last_op[1] = "obj_finalize" /\ last_op'[1] = "get_obj") =>
              DeepEqual(got', last_obj)
       /\ (last_op'[1] = "get_obj" /\ fs[InputSlot] = None) => got' = PyNone
      ]_vars

\* get_obj after a finalize that found another value in the input slot:
\* the nested object comes back as a deep-equal copy.
C9_Witness ==
    /\ last_op[1] = "get_obj"
    /\ last_obj = Inst(1, List(2, PyInt(2)))
    /\ got = Inst(-1, List(-2, PyInt(2)))
    /\ fs[InputSlot] > 0

\* C10: finalize always rewrites the output slot, and rewrites the input
\* slot only if the new value differs from the value in the input slot: a
\* finalize with a deep-equal value leaves the input slot and its
\* createtime unchanged, one with a differing value writes the input
\* slot's content and createtime.
C10_InputRewrittenOnlyIfDiffers ==
    [][(last_op'[1] = "obj_finalize" /\ clock' = clock) =>
          /\ content'[OutputSlot] = dump(last_obj') /\ fs'[OutputSlot] = clock
          /\ IF DeepEqual(last_obj', InputValue)
             THEN fs'[InputSlot] = fs[InputSlot]
                  /\ content'[InputSlot] = content[InputSlot]
             ELSE fs'[InputSlot] = clock
                  /\ content'[InputSlot] = dump(last_obj')
      ]_vars

\* C11: for the temp file resource, deleting the live file makes
\* get_exists false and leaves get_createtime answering the timestamp it
\* answered before the deletion, now read from the placeholder;
\* get_createtime is None only when neither the live file nor the
\* placeholder exists.
C11_PlaceholderKeepsCreatetime ==
    /\ [](get_createtime(fs, "temp") = None <=>
            (fs["temp"] = None /\ fs["temp._placeholder"] = None))
    /\ [][(last_op' = <<"cleanup", "temp">> /\ clock' = clock) =>
             /\ ~get_exists(fs', "temp")
             /\ get_createtime(fs', "temp") = get_createtime(fs, "temp")
             /\ get_createtime(fs', "temp") = fs'["temp._placeholder"]
             /\ get_createtime(fs', "temp") # None
         ]_vars

\* The live file, finalized from a file staged earlier, has been deleted:
\* the resource does not exist and still has its createtime.
C11_Witness ==
    /\ last_op = <<"cleanup", "temp">>
    /\ ~get_exists(fs, "temp")
    /\ get_createtime(fs, "temp") # None
    /\ get_createtime(fs, "temp") < clock

(***************************************************************************)
(* JobCallable claims (SpecCall, SpecCreate)                               *)
(***************************************************************************)
Has(e) == \E i \in DOMAIN trace : trace[i] = e

Pos(e) == CHOOSE i \in DOMAIN trace : trace[i] = e

\* __call__ has ended, by returning or by raising.
CallOver == call_pc = "idle" /\ outcome # "none"

LogsPushedAfterRestore ==
    /\ Has(Ev("restore")) /\ Has(Ev("stdout_push")) /\ Has(Ev("stderr_push"))
    /\ Pos(Ev("restore")) < Pos(Ev("stdout_push"))
    /\ Pos(Ev("restore")) < Pos(Ev("stderr_push"))

\* C12: whenever __call__ has ended, sys.stdout and sys.stderr are the
\* streams that were installed before the call, and job.out and job.err
\* have both been pushed, after the streams were restored.
C12_StreamsRestoredLogsPushed ==
    CallOver => (sys_streams = old_streams /\ LogsPushedAfterRestore)

FuncOrArgRaised == Has(Ev("func_raise")) \/ Has(Ev("arg_raise"))

AllPushed ==
    callable.kind = "JobCallable" =>
        \A a \in 1..callable.nargs : Has(<<"push", a>>)

\* C13: when the function or an argument's allocate, pull or push raised,
\* __call__ wrote the trace to the redirected stderr and returns with
\* finished false; finished is true only if the function returned, its
\* value was bound into ret when present and every argument was pushed; no
\* argument is pushed when the function raised.
C13_ExceptionsSwallowed ==
    /\ (CallOver /\ FuncOrArgRaised) =>
           /\ outcome = "returned"
           /\ Has(Ev("trace_to_job_err"))
           /\ ~callable.finished
    /\ callable.finished =>
           /\ Has(Ev("func_return"))
           /\ callable.has_ret => callable.ret_bound
           /\ AllPushed
    /\ Has(Ev("func_raise")) => \A i \in DOMAIN trace : trace[i][1] # "push"

TimedOutInFunc == raised = <<"TimeOutError", "func">>

\* C14: once the deadline has expired while the function was executing,
\* the call is in its except clause or past it, finished is false, ret is
\* not bound and no argument is pushed; past the except clause the streams
\* are restored, and the call ends by returning with both logs pushed.
C14_TimeoutIsFailure ==
    TimedOutInFunc =>
        /\ call_pc \in {"except", "stdout_push", "stderr_push", "idle"}
        /\ ~callable.finished
        /\ ~callable.ret_bound
        /\ \A i \in DOMAIN trace : trace[i][1] # "push"
        /\ call_pc # "except" =>
               (sys_streams = old_streams /\ Has(Ev("restore")))
        /\ CallOver => (outcome = "returned" /\ LogsPushedAfterRestore)

\* A call with a ret binding and two arguments timed out in the function
\* and has ended.
C14_Witness ==
    /\ CallOver
    /\ TimedOutInFunc
    /\ callable.has_ret
    /\ callable.nargs = Len(ArgNames)
    /\ callable.kind = "JobCallable"

\* What each unit is worth in seconds.
UnitSeconds == ("s" :> 1) @@ ("m" :> 60) @@ ("h" :> 3600) @@ ("d" :> 86400)

\* The number a sequence of decimal digits denotes.
RECURSIVE Decimal(_)
Decimal(ds) ==
    IF Len(ds) = 0 THEN 0
    ELSE DigitValue[ds[Len(ds)]] + 10 * Decimal(SubSeq(ds, 1, Len(ds) - 1))

LastChar(t) == t[2][Len(t[2])]

Prefix(t) == SubSeq(t[2], 1, Len(t[2]) - 1)

\* "<integer><unit>"
IsIntegerUnit(t) ==
    /\ t # PyNone
    /\ Len(t[2]) >= 2
    /\ LastChar(t) \in DOMAIN UnitSeconds
    /\ \A i \in DOMAIN Prefix(t) : Prefix(t)[i] \in DOMAIN DigitValue

TimeoutOf(chars) ==
    ctx_timeout = Str(chars) => callable.job_time_out._timeout

\* C15: create_callable with the timeout string "<integer><unit>" gives a
\* callable whose timeout is integer * multiplier seconds, with s=1, m=60,
\* h=3600, d=86400 ("30s" is 30, "2m" is 120, "1h" is 3600, "1d" is 86400);
\* with a string whose last character is none of s, m, h, d it fails with
\* ValueError and gives no callable.
C15_TimeoutParsing ==
    last_op = <<"create_callable", "">> =>
        /\ IsIntegerUnit(ctx_timeout) =>
               /\ exc = "none"
               /\ callable.kind # "none"
               /\ callable.job_time_out._timeout =
                      Decimal(Prefix(ctx_timeout)) * UnitSeconds[LastChar(ctx_timeout)]
        /\ ctx_timeout = Str(<<"3", "0", "s">>) =>
               callable.job_time_out._timeout = 30
        /\ ctx_timeout = Str(<<"2", "m">>) =>
               callable.job_time_out._timeout = 120
        /\ ctx_timeout = Str(<<"1", "h">>) =>
               callable.job_time_out._timeout = 3600
        /\ ctx_timeout = Str(<<"1", "d">>) =>
               callable.job_time_out._timeout = 86400
        /\ (/\ ctx_timeout # PyNone
            /\ Len(ctx_timeout[2]) > 0
            /\ LastChar(ctx_timeout) \notin DOMAIN UnitSeconds) =>
               (exc = "ValueError" /\ callable = NoCallable)

\* "1h" has been parsed, and so has a string with an unknown unit.
C15_Witness ==
    /\ last_op = <<"create_callable", "">>
    /\ \/ ctx_timeout = Str(<<"1", "h">>) /\ callable.job_time_out._timeout = 3600
       \/ ctx_timeout = Str(<<"3", "0", "x">>) /\ exc = "ValueError"

NoTimeout == ctx_timeout = PyNone \/ ctx_timeout = Str(<<>>)

\* C16: a callable created with no timeout (None or empty) arms no
\* deadline on entering the timeout region, and no timeout failure is
\* raised in its call.
C16_NoTimeoutNoDeadline ==
    (callable.kind # "none" /\ NoTimeout) =>
        (~Has(Ev("arm")) /\ ~Has(Ev("timeout")))

\* C17: in __call__ every allocate precedes every pull, every pull precedes
\* the function invocation and every push follows the function's return;
\* when an argument is pulled all have been allocated, when the function
\* is invoked all have been pulled; a WorkflowCallable performs no
\* allocate, pull or push on any argument.
C17_CallOrder ==
    /\ \A i, j \in DOMAIN trace :
         /\ (trace[i][1] = "allocate" /\ trace[j][1] = "pull") => i < j
         /\ (trace[i][1] = "pull" /\ trace[j] = Ev("func_call")) => i < j
         /\ (trace[i] = Ev("func_call") /\ trace[j][1] = "push") => i < j
    /\ \A j \in DOMAIN trace :
         trace[j][1] = "push" =>
             \E i \in 1..(j - 1) : trace[i] = Ev("func_return")
    /\ (\E j \in DOMAIN trace : trace[j][1] = "pull") =>
           \A a \in 1..callable.nargs : Has(<<"allocate", a>>)
    /\ (Has(Ev("func_call")) /\ callable.kind = "JobCallable") =>
           \A a \in 1..callable.nargs : Has(<<"pull", a>>)
    /\ callable.kind = "WorkflowCallable" =>
           \A i \in DOMAIN trace : trace[i][1] \notin ArgPhases

\* A call that allocated, pulled and pushed two arguments has returned.
C17_Witness ==
    /\ CallOver
    /\ callable.kind = "JobCallable"
    /\ callable.finished
    /\ \A a \in 1..Len(ArgNames) :
         Has(<<"allocate", a>>) /\ Has(<<"pull", a>>) /\ Has(<<"push", a>>)

(***************************************************************************)
(* CallSet, instance creation and finalize claims (SpecDef)                *)
(***************************************************************************)
\* The instance the last finalize() was called on.
Finalized == instances[fin_trace[1][2]]

HasSplit(args) == \E k \in DOMAIN args : args[k] = "SplitArg"

Regenerate == <<"regenerate", 0>>

\* C18: finalize first calls updatedb for every argument, and after that
\* asks the workflow to regenerate exactly when an argument of the
\* instance is a split argument; without one it never regenerates.
C18_FinalizeRegenerates ==
    last_op = <<"finalize", "">> =>
        LET done == Tail(fin_trace)
            args == Finalized.arglist
        IN  /\ \A k \in DOMAIN args : done[k] = <<"updatedb", k>>
            /\ HasSplit(args) =>
                   (Len(done) = Len(args) + 1 /\ done[Len(done)] = Regenerate)
            /\ ~HasSplit(args) =>
                   (Len(done) = Len(args) /\
                    \A k \in DOMAIN done : done[k] # Regenerate)

\* An instance whose arglist has a plain and a split argument was finalized.
C18_Witness ==
    /\ last_op = <<"finalize", "">>
    /\ HasSplit(Finalized.arglist)
    /\ \E k \in DOMAIN Finalized.arglist : Finalized.arglist[k] = "Arg"
    /\ fin_trace[Len(fin_trace)] = Regenerate

Ret == callset_in[1]

WellTyped ==
    /\ callset_in[2] \in {"NoneType", "tuple", "list"}
    /\ callset_in[3] \in {"NoneType", "dict"}

\* C19: constructing a CallSet whose ret is present and not managed fails
\* with ValueError and gives no CallSet, whatever args and kwargs are; with
\* ret absent or managed (args being absent, a tuple or a list and kwargs
\* absent or a dict) the CallSet is constructed, holding that ret.
C19_RetMustBeManaged ==
    last_op = <<"CallSet", "">> =>
        /\ Ret \notin {"NoneType", "Managed"} =>
               (exc = "ValueError" /\ callset = NoCallSet)
        /\ (Ret \in {"NoneType", "Managed"} /\ WellTyped) =>
               (exc = "none" /\ callset # NoCallSet /\ callset.ret = Ret)

\* A CallSet with a raw value as ret, and valid args and kwargs, was refused.
C19_Witness ==
    /\ last_op = <<"CallSet", "">>
    /\ Ret = "int"
    /\ WellTyped
    /\ exc = "ValueError"

\* C20: create_job_instances yields one instance for each node that
\* retrieve_nodes returned, in that order, each bound to its node; the
\* instances are JobInstance, SetObjInstance or SubWorkflowInstance
\* according to the definition's class.
C20_OneInstancePerNode ==
    job_def # "none" =>
        /\ Len(instances) = Len(nodes)
        /\ \A i \in DOMAIN nodes : instances[i].node = nodes[i]
        /\ job_def = "JobDefinition" =>
               \A i \in DOMAIN instances : instances[i].type = "JobInstance"
        /\ job_def = "SetObjDefinition" =>
               \A i \in DOMAIN instances : instances[i].type = "SetObjInstance"
        /\ job_def = "SubWorkflowDefinition" =>
               \A i \in DOMAIN instances :
                   instances[i].type = "SubWorkflowInstance"

\* Two instances were created for two different nodes.
C20_Witness ==
    /\ last_op = <<"create_job_instances", "">>
    /\ job_def = "SetObjDefinition"
    /\ Len(instances) = MaxNodes
    /\ instances[1].node # instances[Len(instances)].node

(***************************************************************************)
(* init_inputs_outputs claims (SpecIO)                                     *)
(***************************************************************************)
Args == {io_arglist[i] : i \in {j \in DOMAIN io_arglist : io_arglist[j].is_Arg}}

MergeInputs == UNION {Range(a.merge_inputs) : a \in Args}

SplitOutputs == UNION {Range(a.split_outputs) : a \in Args}

ArgInputs == UNION {Range(a.inputs) : a \in Args}

IoDone == last_op = <<"init_inputs_outputs", "">>

\* C21: after init_inputs_outputs, a dependency that is both a merge input
\* and a split output of the instance is in outputs, and is in inputs only
\* if an argument or the node names it as an input; every other merge
\* input is in inputs, every split output is in outputs and every node
\* input is in inputs.
C21_MergeSplit ==
    IoDone =>
        /\ \A d \in MergeInputs \cap SplitOutputs :
             /\ d \in Range(outputs)
             /\ d \in Range(inputs) =>
                    (d \in ArgInputs \/ d \in Range(node_inputs))
        /\ \A d \in MergeInputs \ SplitOutputs : d \in Range(inputs)
        /\ \A d \in SplitOutputs : d \in Range(outputs)
        /\ \A d \in Range(node_inputs) : d \in Range(inputs)

\* One dependency is merged and split by the instance and is only an
\* output; the other is merged only and is an input.
C21_Witness ==
    /\ IoDone
    /\ \E d \in MergeInputs \cap SplitOutputs :
         d \in Range(outputs) /\ d \notin Range(inputs)
    /\ \/ \E d \in MergeInputs \ SplitOutputs : d \in Range(inputs)
       \/ node_inputs # <<>>

NoDuplicates(s) == \A i, j \in DOMAIN s : s[i] = s[j] => i = j

\* C22: no identity occurs more than once in inputs, nor more than once
\* in outputs.
C22_Deduplicated == NoDuplicates(inputs) /\ NoDuplicates(outputs)

(***************************************************************************)
(* AzureJobQueue claims (SpecQueue)                                        *)
(***************************************************************************)
\* a step in which wait returns a name
WaitReturned == wait_pc = "loop" /\ wait_pc' = "idle" /\ reported' # "none"

\* the task ids send was given by uuid1()
SentTasks == {TaskIds[i] : i \in 1..num_tasks}

\* (C23) wait() returns only the name of a job that was sent, is not yet
\* received, and whose task the batch service reported completed; it never
\* returns the name of a job that was never sent or that was received and
\* not sent again.
C23_WaitReportsCompleted ==
    [][WaitReturned =>
         \E t \in SentTasks : /\ tasks[t].name = reported'
                              /\ tasks[t].state = "completed"
                              /\ t \notin received_tasks]_vars

\* wait returned a name that was received before and sent again
C23_Witness ==
    /\ reported # "none"
    /\ \E t \in received_tasks : tasks[t].name = reported

\* (C24) wait(immediate=True) does not wait when no job has finished: it
\* returns without blocking, so it never sleeps.
C24_ImmediateDoesNotBlock == wait_immediate => wait_pc # "sleep"

\* (C25) Whatever the order in which the tasks complete, repeated
\* wait()/receive(name) cycles report each sent job's name exactly once,
\* and after as many cycles as jobs were sent the queue is empty.
C25_EachReportedOnce ==
    /\ \A t \in Range(TaskIds) : reports[t] <= 1
    /\ Cardinality(received_tasks) = num_tasks =>
         /\ empty(queue)
         /\ \A t \in SentTasks : reports[t] = 1

\* three jobs went through their cycles, and a job sent later completed
\* before one sent earlier
C25_Witness ==
    /\ num_tasks = Len(TaskIds)
    /\ Cardinality(received_tasks) = num_tasks
    /\ tasks[TaskIds[2]].time < tasks[TaskIds[1]].time

\* a step in which receive(name) is called for the name wait returned
ReceiveCalled == reported # "none" /\ reported' = "none"

\* (C26) receive(name) returns the result when job_result.pickle holds a
\* value other than None, and raises ReceiveError with the text of the
\* debug logs when the file is absent or holds None; either way the job
\* leaves the outstanding set, the length goes down by one and wait() does
\* not report that task again.
C26_ReceiveOutcome ==
    [][ReceiveCalled =>
         /\ recv'.file = "value" =>
              exc' = "none" /\ recv'.result = "value"
         /\ recv'.file \in {"absent", "None"} =>
              /\ exc' = "ReceiveError"
              /\ \A d \in recv'.logs : <<d, log_lines(d)>> \in recv'.text
         /\ ~dict_has(queue'.job_task_ids, reported)
         /\ length(queue') = length(queue) - 1
         /\ received_tasks' \cap wait_candidates(queue') = {}]_vars

\* receive found a pickled None beside its debug logs while another job
\* was still in the queue
C26_Witness ==
    /\ last_op[1] = "receive" /\ exc = "ReceiveError"
    /\ recv.file = "None" /\ recv.logs = DebugTypes
    /\ length(queue) = 1

\* (C27) length is the number of jobs sent and not yet received; empty
\* holds exactly when length is 0.
C27_Length ==
    /\ length(queue) = Cardinality(SentTasks \ received_tasks)
    /\ empty(queue) <=> length(queue) = 0

\* two jobs are in the queue after another was received
C27_Witness == length(queue) = 2 /\ received_tasks # {}

(***************************************************************************)
(* Job shelf claims (SpecShelf)                                            *)
(***************************************************************************)
\* a step in which complete() was called
CompleteCalled == Len(notified') = Len(notified) + 1

\* the instance whose complete() made the last notification
Completing(inst) ==
    notified'[Len(notified')] = [workflow |-> inst.workflow, id |-> id(inst)]

\* (C28) already_run() is false for a display name that never completed and
\* true from complete() on for every instance with that display name, also
\* one created after a regeneration or restart; complete() notifies the
\* owning workflow with the job's id.
C28_AlreadyRun ==
    /\ \A inst \in JobInstances : ~already_run(job_shelf, inst)
    /\ [][/\ \A inst \in JobInstances :
               already_run(job_shelf', inst) <=>
                 \/ already_run(job_shelf, inst)
                 \/ /\ CompleteCalled
                    /\ \E i \in live : /\ Completing(i)
                                       /\ displayname(i) = displayname(inst)
          /\ CompleteCalled => \E i \in live : Completing(i)]_vars

\* a new instance has the display name of a job completed before the
\* restart, under another id
C28_Witness ==
    \E inst \in live :
        /\ already_run(job_shelf, inst)
        /\ \A k \in DOMAIN notified : notified[k].id # id(inst)

(***************************************************************************)
(* Retry isolation claims (SpecFrame)                                      *)
(***************************************************************************)
\* instance k's retry state is not the same after the step
RetryStateChanged(k) ==
    \/ insts'[k].retry_idx # insts[k].retry_idx
    \/ heap'[insts'[k].ctx] # heap[insts[k].ctx]

\* (C29) retry() on one instance changes only that instance's retry_idx and
\* its own copy of the ctx: the JobDefinition's ctx and the other instances
\* stay as they are, and an instance created later, also after a
\* regeneration, starts from the definition's original values.
C29_RetryIsolated ==
    [][/\ heap'[def_ctx'] = heap[def_ctx]
       /\ \A j, k \in DOMAIN insts \cap DOMAIN insts' :
            RetryStateChanged(j) /\ RetryStateChanged(k) => j = k
       /\ \A k \in DOMAIN insts' \ DOMAIN insts :
            /\ insts'[k].retry_idx = 0
            /\ heap'[insts'[k].ctx] = heap[def_ctx]]_vars

\* an instance was created after another one escalated its options
C29_Witness ==
    /\ Len(insts) = 2
    /\ insts[1].retry_idx = 1
    /\ heap[insts[1].ctx] # heap[def_ctx]
    /\ insts[2].retry_idx = 0
    /\ heap[insts[2].ctx] = heap[def_ctx]

(***************************************************************************)
(* explain_out_of_date claims (SpecJob)                                    *)
(***************************************************************************)
Headline == explain_out_of_date(fs, inputs, outputs, is_required_downstream)[1]

StaleReasons ==
    {"no inputs/outputs: always run", "no inputs: always run",
     "no outputs: always run", "missing outputs", "out of date outputs",
     "outputs required by downstream job"}

\* (C30) explain_out_of_date renders the decision of out_of_date: its
\* headline is 'up to date' exactly when out_of_date() is false, and one of
\* the always-run, missing outputs, out of date outputs or required by
\* downstream reasons exactly when out_of_date() is true.
C30_ExplainAgrees ==
    /\ Headline = "up to date" <=> ~out_of_date(fs, inputs, outputs)
    /\ Headline \in StaleReasons <=> out_of_date(fs, inputs, outputs)

(***************************************************************************)
(* Touch claims (SpecTouch)                                                *)
(***************************************************************************)
\* a step in which touch was called on the resource with this filename
Touched(r) == last_op' = <<"touch", r>> /\ clock' = clock

\* (C31) touch on a user or temp file resource marks it freshly produced:
\* afterwards it exists and its createtime is the touch time, not earlier
\* than its previous createtime, and the temp file's placeholder has the
\* live file's mtime; touch on a temporary object changes neither its
\* existence nor its createtime.
C31_TouchFresh ==
    [][/\ \A r \in Resources :
            Touched(r) =>
              /\ get_exists(fs', r)
              /\ get_createtime(fs', r) = clock
              /\ get_createtime(fs', r) >= get_createtime(fs, r)
              /\ r = "temp" => fs'["temp._placeholder"] = fs'["temp"]
       /\ \A is_input \in BOOLEAN :
            Touched(TempObjResource_get_filename(is_input)) =>
              /\ TempObjResource_get_exists(fs', is_input) =
                   TempObjResource_get_exists(fs, is_input)
              /\ TempObjResource_get_createtime(fs', is_input) =
                   TempObjResource_get_createtime(fs, is_input)]_vars

\* the temp file was touched again, later, after its live file was deleted
C31_Witness ==
    /\ last_op = <<"touch", "temp">>
    /\ fs["temp"] = clock /\ fs["temp._placeholder"] = clock
    /\ clock > 1
    /\ fs["user"] # None /\ fs["user"] < clock
    /\ \E p \in ObjPaths : fs[p] # None

\* (C34) For a job with at least one input and one output, after
\* touch_outputs() and with no later change to an input, out_of_date() is
\* false, whatever the variants of its outputs and whether or not they
\* existed before.
C34_TouchedOutputsFresh ==
    (last_op = <<"touch_outputs", "">> /\ ~input_changed
       /\ Len(inputs) > 0 /\ Len(outputs) > 0) =>
        ~out_of_date(Createtimes(fs), inputs, outputs)

(***************************************************************************)
(* Timeout region claims (SpecCall)                                        *)
(***************************************************************************)
\* the positions of __call__ between entering and leaving the with block
WithRegion == {"allocate", "pull", "func", "push", "finished", "except"}

\* (C32) The timeout is a scoped region: a deadline is pending only between
\* entering and leaving the with block of the callable that armed it, it is
\* cancelled on leaving the block, and a timeout failure is raised only
\* inside the block of a call that armed a deadline: not during the log
\* pushes and not in a later call of the process.
C32_TimeoutScoped ==
    /\ alarm => call_pc \in WithRegion
    /\ raised[1] = "TimeOutError" =>
         (raised[2] \in WithRegion /\ Has(Ev("arm")))

(***************************************************************************)
(* Concurrent call claims (SpecThread)                                     *)
(***************************************************************************)
\* (C33) When two JobCallables run __call__ concurrently on worker threads
\* of one process, after both have returned sys.stdout and sys.stderr are
\* the original streams, and no job's output was written to the other
\* job's log file.
C33_ConcurrentCallsIsolated ==
    /\ (\A t \in Threads : th_pc[t] = "returned") => sys_streams = "original"
    /\ \A t, u \in Threads : <<t, JobFile(u)>> \in th_out => t = u

(***************************************************************************)
(* AzureJobQueue bookkeeping claims (SpecQueue)                            *)
(***************************************************************************)
keys(d) == {p[1] : p \in d}

\* no key has two values
IsDict(d) == \A p, q \in d : p[1] = q[1] => p = q

CompletedOutstanding(t) ==
    t \in queue.running_task_ids /\ tasks[t].state = "completed"

\* the 'stateTransitionTime gt' query can not list the task any more
NeverListed(t) ==
    /\ queue.most_recent_transition_time # None
    /\ tasks[t].time <= strftime(queue.most_recent_transition_time)

\* (C36) If an outstanding task is completed in the batch service, wait()
\* eventually returns a job name under fair polling, also when the task's
\* transition time is not later than most_recent_transition_time and the
\* incremental query never lists it, because the full rescan adds every
\* completed task; completed_task_ids only grows and
\* most_recent_transition_time never decreases.
C36_WaitReturns ==
    /\ (wait_pc # "idle" /\ \E t \in Range(TaskIds) : CompletedOutstanding(t))
         ~> (wait_pc = "idle" /\ reported # "none")
    /\ [][/\ queue.completed_task_ids \subseteq queue'.completed_task_ids
          /\ queue'.most_recent_transition_time >=
               queue.most_recent_transition_time]_vars

\* wait sleeps after an update that could not list the only completed
\* outstanding task: only the rescan can find it
C36_Witness ==
    /\ wait_pc = "sleep"
    /\ \E t \in Range(TaskIds) :
         /\ CompletedOutstanding(t)
         /\ NeverListed(t)
         /\ t \notin queue.completed_task_ids
    /\ wait_candidates(queue) = {}

(***************************************************************************)
(* AzureJobQueue: the files of a job name that is sent again               *)
(* (contrib/azure/batchqueue.py send, add_task, receive)                   *)
(***************************************************************************)
\* self.debug_filenames
debug_filenames ==
    {<<"job stderr", "stderr.txt">>, <<"job stdout", "stdout.txt">>,
     <<"upload err", "fileuploaderr.txt">>,
     <<"upload out", "fileuploadout.txt">>}

\* os.path.join(temps_dir, filename) / os.path.join(prefix, filename)
os_path_join(dir, filename) == <<dir, filename>>

\* Variant of send's removals that leaves the temps_dir as it is.
send_removes_nothing(files, temps_dir) == files

\* send, the two 'Delete any previous ...' blocks: os.remove of
\* job_result.pickle and of every debug file in temps_dir
send_removes(files, temps_dir) ==
    LET removed == {os_path_join(temps_dir, "job_result.pickle")} \cup
                   {os_path_join(temps_dir, p[2]) : p \in debug_filenames}
    IN  [f \in DOMAIN files |-> IF f \in removed THEN NoFile ELSE files[f]]

\* delete_from_container: the blob is deleted when it exists
delete_from_container(bl, blob_name) ==
    IF dict_has(bl, blob_name) THEN dict_pop(bl, blob_name) ELSE bl

\* download_blobs_from_container: every blob whose name starts with the
\* prefix is written to directory_path under the rest of its name
download_blobs_from_container(files, bl, directory_path, prefix) ==
    [f \in DOMAIN files |->
        IF f[1] = directory_path /\ dict_has(bl, os_path_join(prefix, f[2]))
        THEN dict_get(bl, os_path_join(prefix, f[2]))
        ELSE files[f]]

\* add_task, output_files: what the batch service uploads at the task's
\* completion, of the files the task left: ../stdout.txt, ../stderr.txt
\* and job_result.pickle, each under output_blob_prefix
task_output_files(task_id, file, has_logs) ==
    LET prefix == blobname_prefix(task_id)
    IN  {<<os_path_join(prefix, "job_result.pickle"),
           [task |-> task_id, data |-> file]>> : x \in {0} \cap
              (IF file = "absent" THEN {} ELSE {0})} \cup
        {<<os_path_join(prefix, fn), [task |-> task_id, data |-> "lines"]>> :
           fn \in IF has_logs THEN {"stdout.txt", "stderr.txt"} ELSE {}}

\* receive and _create_error_text: the debug types whose file exists
debug_files_in(files, temps_dir) ==
    {p[1] : p \in {q \in debug_filenames :
                     files[os_path_join(temps_dir, q[2])] # NoFile}}

ResendInit ==
    /\ FsEmpty /\ JobIdle /\ RetryIdle /\ OpIdle /\ ObjIdle /\ CallIdle
    /\ DefIdle /\ IoIdle /\ AzIdle /\ ShelfIdle /\ FrameIdle /\ FinalIdle

resendRest ==
    <<fsVars, jobVars, retryVars, objVars, callVars, defVars, ioVars,
      shelfVars, frameVars, threadVars, blobVars, exitVars, wait_pc,
      wait_immediate, reported, reports>>

\* send(ctx, name, sent, temps_dir) with the temps_dir of that name, the
\* name not being outstanding: the bookkeeping, job.pickle written and
\* uploaded, the previous result and logs deleted, job.sh written and
\* uploaded, the task added.
ResendSend(name) ==
    /\ num_tasks < Len(TaskIds)
    /\ ~dict_has(queue.job_task_ids, name)
    /\ LET task_id == TaskIds[num_tasks + 1]
           temps_dir == temps_dir_of(name)
           prefix == blobname_prefix(task_id)
           sent == [task |-> task_id, data |-> "job"]
           script == [task |-> task_id, data |-> "script"]
           written == [send_removes(local_files, temps_dir) EXCEPT
                         ![os_path_join(temps_dir, "job.pickle")] = sent,
                         ![os_path_join(temps_dir, "job.sh")] = script]
       IN  /\ queue' = AzureJobQueue_send(queue, name, task_id)
           /\ local_files' = written
           /\ blobs' =
                dict_set(dict_set(
                    delete_from_container(blobs,
                        os_path_join(prefix, "job_result.pickle")),
                    os_path_join(prefix, "job.pickle"), sent),
                    os_path_join(prefix, "job.sh"), script)
           /\ tasks' = [tasks EXCEPT ![task_id] =
                          [state |-> "active", time |-> clock, name |-> name]]
    /\ num_tasks' = num_tasks + 1
    /\ recv' = NoRecv /\ recv_src' = {}
    /\ last_op' = <<"send", name>> /\ exc' = "none"
    /\ UNCHANGED <<resendRest, received_tasks>>

\* The batch service: a task ends, with or without a result file and with
\* or without its output streams, and its output files are uploaded.
ResendTaskCompletes(task_id, file, has_logs) ==
    /\ tasks[task_id].state = "active"
    /\ tasks' = [tasks EXCEPT ![task_id].state = "completed",
                              ![task_id].time = clock]
    /\ blobs' = blobs \cup task_output_files(task_id, file, has_logs)
    /\ UNCHANGED <<resendRest, opVars, queue, num_tasks, recv, recv_src,
                   local_files, received_tasks>>

\* receive(name) for an outstanding name whose task is completed (a name
\* wait returned): the pops, the download, the result file read, and the
\* error text made of the debug files when there is no result.
ResendReceive(name) ==
    /\ dict_has(queue.job_task_ids, name)
    /\ tasks[dict_get(queue.job_task_ids, name)].state = "completed"
    /\ LET temps_dir == dict_get(queue.job_temps_dir, name)
           prefix == dict_get(queue.job_blobname_prefix, name)
           files == download_blobs_from_container(local_files, blobs,
                                                  temps_dir, prefix)
           result == files[os_path_join(temps_dir, "job_result.pickle")]
           logs == debug_files_in(files, temps_dir)
       IN  /\ local_files' = files
           /\ recv' = [name |-> name, file |-> result.data,
                       result |-> IF receive_raises(result.data) THEN "none"
                                  ELSE result.data,
                       logs |-> logs,
                       text |-> IF receive_raises(result.data)
                                THEN _create_error_text(logs) ELSE {}]
           /\ recv_src' =
                (IF result = NoFile THEN {} ELSE {result.task}) \cup
                (IF receive_raises(result.data)
                 THEN {files[os_path_join(temps_dir, p[2])].task :
                         p \in {q \in debug_filenames : q[1] \in logs}}
                 ELSE {})
           /\ exc' = IF receive_raises(result.data) THEN "ReceiveError"
                     ELSE "none"
    /\ received_tasks' =
         received_tasks \cup {dict_get(queue.job_task_ids, name)}
    /\ queue' = AzureJobQueue_receive(queue, name)
    /\ last_op' = <<"receive", name>>
    /\ UNCHANGED <<resendRest, tasks, num_tasks, blobs>>

ResendNext ==
    \/ \E name \in JobNames : ResendSend(name)
    \/ \E task_id \in Range(TaskIds), file \in ResultFiles,
          has_logs \in BOOLEAN : ResendTaskCompletes(task_id, file, has_logs)
    \/ \E name \in JobNames : ResendReceive(name)

SpecResend == ResendInit /\ [][ResendNext]_vars

(***************************************************************************)
(* Resend claims (SpecResend)                                              *)
(***************************************************************************)
\* (C37) receive(name) never returns a result, and never reports logs, left
\* over from an earlier send of the same name: what it reads was written by
\* the task most recently sent under the name.  send leaves no
\* job_result.pickle and no debug file in the temps_dir and no
\* job_result.pickle blob under the task's own prefix.
C37_ReceiveFresh ==
    /\ recv.name # "none" => recv_src \subseteq {owner(tasks, recv.name)}
    /\ [][\A name \in JobNames :
            (last_op' = <<"send", name>> /\ num_tasks' # num_tasks) =>
              /\ local_files'[os_path_join(temps_dir_of(name),
                                           "job_result.pickle")] = NoFile
              /\ debug_files_in(local_files', temps_dir_of(name)) = {}
              /\ ~dict_has(blobs',
                    os_path_join(dict_get(queue'.job_blobname_prefix, name),
                                 "job_result.pickle"))]_vars

\* a receive raised ReceiveError with nothing to read, in a temps_dir
\* where an earlier task of the same name had left a result and logs
C37_Witness ==
    /\ recv.name # "none" /\ exc = "ReceiveError"
    /\ recv.file = "absent" /\ recv.logs = {}
    /\ \E t \in received_tasks :
         /\ t # owner(tasks, recv.name) /\ tasks[t].name = recv.name
         /\ dict_has(blobs, os_path_join(blobname_prefix(t),
                                         "job_result.pickle"))
         /\ dict_has(blobs, os_path_join(blobname_prefix(t), "stdout.txt"))

(***************************************************************************)
(* AzureBlob and its createtime cache (contrib/azure/blobstorage.py)       *)
(***************************************************************************)
\* The createtime 'missing' the cache holds for a blob found missing.
missing == -2

\* strftime('%Y/%m/%d-%H:%M:%S') of a time: the string names a whole
\* second.  time.mktime(strptime(string).timetuple()) is the time of that
\* second.
createtime_strftime(t) == t \div TicksPerSecond

createtime_mktime(string) == string * TicksPerSecond

\* pypeliner.flyweight: the flyweight of a blob name answers the value last
\* set for the name, None before any set.
Flyweight_get(cache) == cache

Flyweight_set(cache, value) == value

\* AzureBlobStorage.retrieve_blob_createtime: the metadata 'create_time',
\* else last_modified; BlobMissing for a blob that is not there
retrieve_blob_createtime(store) ==
    IF ~store.exists THEN "BlobMissing"
    ELSE IF store.create_time # None THEN store.create_time
    ELSE createtime_strftime(store.last_modified)

\* AzureBlob.get_createtime: the cache afterwards and the value returned
AzureBlob_get_createtime(cache, store) ==
    LET cached == Flyweight_get(cache)
        createtime ==
            IF cached # None THEN cached
            ELSE IF ~store.exists THEN missing
            ELSE retrieve_blob_createtime(store)
    IN  [cache |-> IF cached = None THEN Flyweight_set(cache, createtime)
                   ELSE cache,
         ret |-> IF createtime = missing THEN None
                 ELSE createtime_mktime(createtime)]

\* AzureBlob.get_exists
AzureBlob_get_exists(cache, store) ==
    LET createtime == AzureBlob_get_createtime(cache, store).ret
    IN  createtime # None /\ createtime # missing

BlobInit ==
    /\ FsEmpty /\ JobIdle /\ RetryIdle /\ OpIdle /\ ObjIdle /\ CallIdle
    /\ DefIdle /\ IoIdle /\ AzIdle /\ ShelfIdle /\ FrameIdle /\ FinalIdle

blobRest ==
    <<fs, content, jobVars, retryVars, objVars, callVars, defVars, ioVars,
      azVars, shelfVars, frameVars, threadVars, resendVars, exitVars>>

\* Time passes.
BlobTick ==
    /\ clock < MaxTime
    /\ clock' = clock + 1
    /\ UNCHANGED <<blobRest, opVars, blobVars>>

\* The job writes the file at AzureBlob.filename.
BlobWriteFile ==
    /\ file_mtime' = clock
    /\ last_op' = <<"write", "filename">> /\ exc' = "none"
    /\ UNCHANGED <<blobRest, clock, blob_store, createtime_cache>>

\* AzureBlob.push: os.path.getmtime raises OSError without the file
BlobPush ==
    /\ last_op' = <<"push", "blob">>
    /\ IF file_mtime = None
       THEN /\ exc' = "OSError"
            /\ UNCHANGED <<blob_store, createtime_cache>>
       ELSE LET createtime == createtime_strftime(file_mtime)
            IN  /\ blob_store' = [exists |-> TRUE, create_time |-> createtime,
                                  last_modified |-> clock]
                /\ createtime_cache' =
                     Flyweight_set(createtime_cache, createtime)
                /\ exc' = "none"
    /\ UNCHANGED <<blobRest, clock, file_mtime>>

\* AzureBlob.get_createtime / AzureBlob.get_exists
BlobGet(op) ==
    /\ createtime_cache' =
         AzureBlob_get_createtime(createtime_cache, blob_store).cache
    /\ last_op' = <<op, "blob">> /\ exc' = "none"
    /\ UNCHANGED <<blobRest, clock, blob_store, file_mtime>>

\* AzureBlob.touch: set_blob_metadata raises for a blob that is not there
BlobTouch ==
    /\ last_op' = <<"touch", "blob">>
    /\ IF ~blob_store.exists
       THEN /\ exc' = "AzureMissingResourceHttpError"
            /\ UNCHANGED <<blob_store, createtime_cache>>
       ELSE LET createtime == createtime_strftime(clock)
            IN  /\ blob_store' = [blob_store EXCEPT
                                    !.create_time = createtime,
                                    !.last_modified = clock]
                /\ createtime_cache' =
                     Flyweight_set(createtime_cache, createtime)
                /\ exc' = "none"
    /\ UNCHANGED <<blobRest, clock, file_mtime>>

\* AzureBlob.delete: delete_blob raises for a blob that is not there
BlobDelete ==
    /\ last_op' = <<"delete", "blob">>
    /\ IF ~blob_store.exists
       THEN /\ exc' = "AzureMissingResourceHttpError"
            /\ UNCHANGED <<blob_store, createtime_cache>>
       ELSE /\ blob_store' = NoBlob
            /\ createtime_cache' = Flyweight_set(createtime_cache, None)
            /\ exc' = "none"
    /\ UNCHANGED <<blobRest, clock, file_mtime>>

\* Another holder of the blob name, in another process (the remote job
\* that produces the blob), pushes its file: create_blob_from_path with
\* the metadata 'create_time'.
RemotePush ==
    /\ \E mtime \in 0 .. clock :
         blob_store' = [exists |-> TRUE,
                        create_time |-> createtime_strftime(mtime),
                        last_modified |-> clock]
    /\ last_op' = <<"remote push", "blob">> /\ exc' = "none"
    /\ UNCHANGED <<blobRest, clock, createtime_cache, file_mtime>>

BlobNext ==
    \/ BlobTick
    \/ BlobWriteFile
    \/ BlobPush
    \/ \E op \in {"get_createtime", "get_exists"} : BlobGet(op)
    \/ BlobTouch
    \/ BlobDelete
    \/ RemotePush

SpecBlob == BlobInit /\ [][BlobNext]_vars

(***************************************************************************)
(* AzureBlob claims (SpecBlob)                                             *)
(***************************************************************************)
\* what the storage would report for the blob: its createtime, None for a
\* blob that is not there
StorageCreatetime ==
    IF blob_store.exists
    THEN createtime_mktime(retrieve_blob_createtime(blob_store))
    ELSE None

\* (C38) After any sequence of push, touch, delete, get_createtime and
\* get_exists on an AzureBlob, get_exists() is true exactly when
\* get_createtime() is not None, and get_createtime() answers what the
\* storage would report for the blob: the pushed file's createtime after a
\* push, the touch time after a touch, None after a delete, and the
\* createtime of a blob another holder of the name created after the blob
\* was cached as 'missing'.
C38_CacheAgreesWithStorage ==
    /\ AzureBlob_get_exists(createtime_cache, blob_store) <=>
         (AzureBlob_get_createtime(createtime_cache, blob_store).ret # None)
    /\ AzureBlob_get_createtime(createtime_cache, blob_store).ret =
         StorageCreatetime

(***************************************************************************)
(* AzureJobQueue.__exit__ and wait_for_job_deletion                        *)
(* (contrib/azure/batchqueue.py)                                           *)
(***************************************************************************)
\* where __exit__ goes after the pools' loop, and after the jobs' loop
after_pools(flags) == IF ~flags.job THEN "jobs" ELSE "done"

ExitInit ==
    /\ FsEmpty /\ JobIdle /\ RetryIdle /\ OpIdle /\ ObjIdle /\ CallIdle
    /\ DefIdle /\ IoIdle /\ AzIdle /\ ShelfIdle /\ FrameIdle
    /\ ThreadIdle /\ ResendIdle /\ BlobIdle
    /\ exit_pc = "idle" /\ exit_todo = <<>> /\ exit_asked = {}
    /\ no_delete \in [pool : BOOLEAN, job : BOOLEAN]
    /\ batch_pools = [pool_id \in Range(PoolIds) |-> "active"]
    /\ batch_jobs = [job_id \in JobIds |-> "active"]

exitRest ==
    <<fsVars, jobVars, retryVars, opVars, objVars, callVars, defVars, ioVars,
      azVars, shelfVars, frameVars, threadVars, resendVars, blobVars,
      no_delete>>

\* __exit__ is entered: 'tear down' and the two flags
ExitCall ==
    /\ exit_pc = "idle"
    /\ exit_pc' = IF ~no_delete.pool THEN "pools" ELSE after_pools(no_delete)
    /\ exit_todo' = IF no_delete.pool /\ no_delete.job THEN <<>> ELSE PoolIds
    /\ UNCHANGED <<exitRest, batch_pools, batch_jobs, exit_asked>>

\* One turn of the pools' loop: batch_client.pool.delete(pool_id), which
\* starts the pool's deletion or raises; the exception is printed.
ExitDeletePool(ok) ==
    /\ exit_pc = "pools"
    /\ LET pool_id == Head(exit_todo)
       IN  /\ ok => batch_pools[pool_id] = "active"
           /\ batch_pools' = IF ok
                             THEN [batch_pools EXCEPT ![pool_id] = "deleting"]
                             ELSE batch_pools
           /\ exit_asked' = exit_asked \cup {<<"pool", pool_id>>}
    /\ IF Len(exit_todo) > 1
       THEN exit_todo' = Tail(exit_todo) /\ exit_pc' = "pools"
       ELSE /\ exit_pc' = after_pools(no_delete)
            /\ exit_todo' = IF no_delete.job THEN <<>> ELSE PoolIds
    /\ UNCHANGED <<exitRest, batch_jobs>>

\* One turn of the jobs' loop up to the wait: batch_client.job.delete(job_id),
\* which starts the job's deletion or raises; the exception is printed and
\* wait_for_job_deletion is called.
ExitDeleteJob(ok) ==
    /\ exit_pc = "jobs"
    /\ LET job_id == pool_job_map(Head(exit_todo))
       IN  /\ ok => batch_jobs[job_id] = "active"
           /\ batch_jobs' = IF ok
                            THEN [batch_jobs EXCEPT ![job_id] = "deleting"]
                            ELSE batch_jobs
           /\ exit_asked' = exit_asked \cup {<<"job", job_id>>}
    /\ exit_pc' = "wait"
    /\ UNCHANGED <<exitRest, batch_pools, exit_todo>>

\* wait_for_job_deletion, one turn: batch_client.job.get(job_id) raises
\* BatchErrorException for a job that is not there, and the loop breaks;
\* else the state is logged and the loop sleeps.
ExitWaitGet ==
    /\ exit_pc = "wait"
    /\ IF batch_jobs[pool_job_map(Head(exit_todo))] = "none"
       THEN /\ exit_todo' = Tail(exit_todo)
            /\ exit_pc' = IF Len(exit_todo) > 1 THEN "jobs" ELSE "done"
       ELSE exit_pc' = "sleep" /\ exit_todo' = exit_todo
    /\ UNCHANGED <<exitRest, batch_pools, batch_jobs, exit_asked>>

\* time.sleep(30) ends
ExitSleep ==
    /\ exit_pc = "sleep"
    /\ exit_pc' = "wait"
    /\ UNCHANGED <<exitRest, exit_todo, batch_pools, batch_jobs, exit_asked>>

\* The batch service finishes the deletion of a pool / of a job.
PoolDeleted(pool_id) ==
    /\ batch_pools[pool_id] = "deleting"
    /\ batch_pools' = [batch_pools EXCEPT ![pool_id] = "none"]
    /\ UNCHANGED <<exitRest, exit_pc, exit_todo, batch_jobs, exit_asked>>

JobDeleted(job_id) ==
    /\ batch_jobs[job_id] = "deleting"
    /\ batch_jobs' = [batch_jobs EXCEPT ![job_id] = "none"]
    /\ UNCHANGED <<exitRest, exit_pc, exit_todo, batch_pools, exit_asked>>

ExitNext ==
    \/ ExitCall
    \/ \E ok \in BOOLEAN : ExitDeletePool(ok)
    \/ \E ok \in BOOLEAN : ExitDeleteJob(ok)
    \/ ExitWaitGet
    \/ ExitSleep
    \/ \E pool_id \in Range(PoolIds) : PoolDeleted(pool_id)
    \/ \E job_id \in JobIds : JobDeleted(job_id)

SpecExit == ExitInit /\ [][ExitNext]_vars

(***************************************************************************)
(* Teardown claims (SpecExit)                                              *)
(***************************************************************************)
\* (C39) __exit__ terminates for every outcome of the deletion requests:
\* when it has ended, every pool was asked to be deleted unless
\* no_delete_pool is set and every job unless no_delete_job is set, also
\* after failed requests; and the wait for a job's deletion eventually
\* ends: whenever __exit__ waits for a job, the job is gone or the batch
\* service is deleting it.
C39_TeardownTerminates ==
    /\ exit_pc = "done" =>
         /\ ~no_delete.pool =>
              \A pool_id \in Range(PoolIds) : <<"pool", pool_id>> \in exit_asked
         /\ ~no_delete.job =>
              \A job_id \in JobIds : <<"job", job_id>> \in exit_asked
    /\ exit_pc \in {"wait", "sleep"} =>
         batch_jobs[pool_job_map(Head(exit_todo))] \in {"deleting", "none"}

====
